---------------------------- MODULE Spec2Model ----------------------------
(***************************************************************************)
(* Session / authentication core of the GemstoneBackend API:               *)
(*   - the request classifier (isAdminRequest) that picks the session      *)
(*     lifecycle (cookie name + store partition) of a request,             *)
(*   - the two express-session lifecycles over the sanitized Mongo store,  *)
(*   - the passport login / logout / signup handlers and the guards.       *)
(* A request is a sequence of steps; every step is one store or database   *)
(* operation together with the synchronous code that runs up to the next   *)
(* one, so that requests interleave exactly at their suspension points.    *)
(* The server runs in its development configuration (plain HTTP, cookies   *)
(* not marked secure) unless a specification says otherwise.               *)
(***************************************************************************)
EXTENDS Naturals, Integers, Sequences, FiniteSets, TLC

\* ----------------------------------------------------------------- bounds
MaxSid == 2          \* session ids that genid may hand out in one behaviour
MaxReq == 1          \* requests in flight at the same time (Spec)
MaxShop == 2         \* requests in flight at the same time (SpecShop)
MaxDoc == 2          \* documents of the collection behind the sanitizer
MaxTime == 3         \* ticks of the clock in one behaviour
MaxEnvLen == 3       \* characters of the SESSION_MAX_AGE environment variable
MaxTxnLen == 2       \* characters of a transactionId
MaxBooking == 2      \* bookingIds that createPayment may generate
MaxSub == 2          \* payment submissions in flight at the same time
MaxCall == 2         \* payment settings calls in flight at the same time
MaxDay == 13         \* days after 1 January 1970 on which analytics are asked

\* -------------------------------------------------------------- vocabulary
None == "none"
Principals == {"a", "u"}      \* "a" is admin@gemstones.com, "u" any other e-mail
Namespaces == {"user", "admin"}

\* An e-mail address as a client may spell it: "A" and "U" are "a" and "u"
\* written with capital letters.
Emails == {"a", "u", "A", "U"}

\* email.toLowerCase()
ToLowerCase(email) ==
  CASE email = "A" -> "a"
    [] email = "U" -> "u"
    [] OTHER -> email
Sids == 1..MaxSid

\* Strings are sequences of tokens: "/" and the pieces between slashes (a
\* piece is cut where a pattern of the classifier could end inside it).
\* The route of each kind of request, as req.path.
Path(kind) ==
  CASE kind = "login"       -> <<"/", "api", "/", "auth", "/", "login">>
    [] kind = "adminLogin"  -> <<"/", "api", "/", "auth", "/", "admin", "/", "login">>
    [] kind = "signup"      -> <<"/", "api", "/", "auth", "/", "signup">>
    [] kind = "logout"      -> <<"/", "api", "/", "auth", "/", "logout">>
    [] kind = "me"          -> <<"/", "api", "/", "auth", "/", "me">>
    [] kind = "status"      -> <<"/", "api", "/", "auth", "/", "status">>
    [] kind = "adminStatus" -> <<"/", "api", "/", "auth", "/", "admin", "/", "status">>
    [] kind = "adminOnly"   -> <<"/", "api", "/", "auth", "/", "users">>
    [] kind = "products"    -> <<"/", "api", "/", "products">>
    [] kind = "health"      -> <<"/", "api", "/", "health">>

\* --------------------------------------------------------------- classifier
\* String.prototype.includes and String.prototype.startsWith.
Includes(s, pat) ==
  \E i \in 0..(Len(s) - Len(pat)) :
     \A j \in 1..Len(pat) : s[i + j] = pat[j]

StartsWith(s, pat) ==
  /\ Len(s) >= Len(pat)
  /\ \A j \in 1..Len(pat) : s[j] = pat[j]

UserCookieName == <<"connect.sid=">>
AdminCookieName == <<"admin.", "connect.sid=">>

\* The Cookie header a client sends when it presents the user cookie (cU # 0)
\* and / or the admin cookie (cA # 0).
CookieHeader(cU, cA) ==
  (IF cU # 0 THEN UserCookieName \o <<"value">> ELSE << >>)
  \o (IF cU # 0 /\ cA # 0 THEN <<"; ">> ELSE << >>)
  \o (IF cA # 0 THEN AdminCookieName \o <<"value">> ELSE << >>)

\* process.env.ADMIN_URL || 'http://localhost:8081' and
\* process.env.FRONTEND_URL || 'http://localhost:8080'
AdminUrl == <<"http://", "localhost:8081">>
FrontendUrl == <<"http://", "localhost:8080">>

Schemes == {"http://", "https://"}

\* url.replace(/^https?:\/\//, '')
NoScheme(url) ==
  IF Len(url) > 0 /\ url[1] \in Schemes THEN Tail(url) ELSE url

\* url.replace(/^https?:\/\//, '').replace(/\/$/, '')
DomainOf(url) ==
  LET d == NoScheme(url) IN
  IF Len(d) > 0 /\ d[Len(d)] = "/" THEN SubSeq(d, 1, Len(d) - 1) ELSE d

\* referer.replace(/^https?:\/\//, '').split('/')[0]
RefererDomain(url) ==
  LET d == NoScheme(url)
      cut == {i \in 1..Len(d) : d[i] = "/"}
  IN IF cut = {} THEN d
     ELSE SubSeq(d, 1, (CHOOSE i \in cut : \A j \in cut : i <= j) - 1)

\* Variant of the domain test without the exclusion of the frontend domain.
DomainIsAdminOnly(d, adminDomain, frontendDomain) ==
  d = adminDomain \/ Includes(d, adminDomain)

\* domain === adminDomain || domain.includes(adminDomain), and the same test
\* against the frontend domain must fail.
DomainIsAdmin(d, adminDomain, frontendDomain) ==
  /\ (d = adminDomain \/ Includes(d, adminDomain))
  /\ (d # frontendDomain /\ ~Includes(d, frontendDomain))

\* The origin and the referer rule under the configured ADMIN_URL and
\* FRONTEND_URL.
OriginIsAdminFor(origin, adminUrl, frontendUrl) ==
  /\ origin # << >>
  /\ DomainIsAdmin(DomainOf(origin), DomainOf(adminUrl), DomainOf(frontendUrl))

RefererIsAdminFor(referer, adminUrl, frontendUrl) ==
  /\ referer # << >>
  /\ DomainIsAdmin(RefererDomain(referer), DomainOf(adminUrl), DomainOf(frontendUrl))

OriginIsAdmin(origin) == OriginIsAdminFor(origin, AdminUrl, FrontendUrl)

RefererIsAdmin(referer) == RefererIsAdminFor(referer, AdminUrl, FrontendUrl)

PathIsAdmin(path) ==
  \/ StartsWith(path, <<"/", "api", "/", "auth", "/", "admin">>)
  \/ Includes(path, <<"/", "admin", "/">>)

\* Variant of isAdminRequest without the look at the x-client-type header.
IsAdminRequestWithoutHeader(xClientType, path, cookies, origin, referer) ==
  \/ PathIsAdmin(path)
  \/ (Includes(cookies, AdminCookieName) /\ ~Includes(cookies, UserCookieName))
  \/ OriginIsAdmin(origin)
  \/ RefererIsAdmin(referer)

IsAdminRequest(xClientType, path, cookies, origin, referer) ==
  \/ xClientType = "admin"
  \/ PathIsAdmin(path)
  \/ (Includes(cookies, AdminCookieName) /\ ~Includes(cookies, UserCookieName))
  \/ OriginIsAdmin(origin)
  \/ RefererIsAdmin(referer)

\* isAdminRequest under a configured ADMIN_URL and FRONTEND_URL.
IsAdminRequestFor(xClientType, path, cookies, origin, referer, adminUrl, frontendUrl) ==
  \/ xClientType = "admin"
  \/ PathIsAdmin(path)
  \/ (Includes(cookies, AdminCookieName) /\ ~Includes(cookies, UserCookieName))
  \/ OriginIsAdminFor(origin, adminUrl, frontendUrl)
  \/ RefererIsAdminFor(referer, adminUrl, frontendUrl)

\* SETUP.md and the README: FRONTEND_URL and ADMIN_URL are both set to
\* http://localhost:8080.
SetupUrl == <<"http://", "localhost:8080">>

\* ------------------------------------------------------- stored values
\* The JavaScript values a stored session can have as session.cookie and as
\* session.cookie.expires.
ADate == "Date(2030-01-01)"
CookieShapes == {"undefined", "null", "'x'", "7", "object"}
ExpiresShapes == {"undefined", "null", "''", "0", "'x'", "7", ADate}

\* !v
Truthy(v) == v \notin {"undefined", "null", "''", "0"}

\* typeof v
TypeOf(v) ==
  CASE v = "undefined" -> "undefined"
    [] v \in {"null", "object", ADate} -> "object"
    [] v \in {"0", "7"} -> "number"
    [] OTHER -> "string"

\* ------------------------------------------------------------------- state
VARIABLES
  users,     \* the users collection: principal -> [exists, role, active]
  store,     \* the two session collections: namespace -> sid -> record
  nextSid,   \* the next id genid hands out
  known,     \* session ids that were sent to a client in a Set-Cookie header
  reqs,      \* the requests in flight, by slot
  obs,       \* the slot whose response head was just written or whose
             \* response just completed (0: none)
  authed,    \* history: namespace -> sid -> the principal a 200 login
             \* established under that id, or LoggedOut after a 200 logout
             \* (a request also notes, as history, what authed said of the
             \* cookie it presented, the write that was acknowledged to it
             \* and, for a logout, the other partition as it found it)
  san,       \* the sanitized store seen on its own (see the last sections)
  cls,       \* the classifier seen on its own: a request and its namespace
  now,       \* Date.now(), in ticks
  mode,      \* the deployment the process was started in
  conf,      \* the session configuration seen on its own: maxAge and ttl
  pay,       \* the payments collection, the submissions and the status update
             \* in progress
  pset,      \* the payment settings collection and the calls that read or
             \* write it
  wk         \* the analytics week window seen on its own: a time and its start

vars == <<users, store, nextSid, known, reqs, obs, authed, san, cls, now, mode, conf, pay, pset, wk>>
sideVars == <<san, cls, now, mode, conf, pay, pset, wk>>

Slots == DOMAIN reqs
Other(ns) == IF ns = "admin" THEN "user" ELSE "admin"
CookieOf(ns) == IF ns = "admin" THEN "admin.connect.sid" ELSE "connect.sid"
LoggedOut == "out"

NoUser == [exists |-> FALSE, role |-> "none", active |-> FALSE]
\* SESSION_MAX_AGE, in ticks of the clock.
MaxAge == 2

\* Variant of touch that leaves the expiry as it is (no rolling expiry).
TouchedKeeps(expires, t) == expires

\* session.touch(): cookie.maxAge = cookie.originalMaxAge, which sets
\* cookie.expires to Date.now() + maxAge.
Touched(expires, t) == t + MaxAge

\* A session record: the principal under passport.user, the cookie
\* descriptor (express-session writes a cookie object whose expires is a
\* Date) and the time that Date is, which the store keeps as the document's
\* expiry.
NoRec == [present |-> FALSE, user |-> None, cookie |-> "undefined",
          expires |-> "undefined", until |-> 0]
Rec(u, t) == [present |-> TRUE, user |-> u, cookie |-> "object", expires |-> ADate,
              until |-> t]

\* The cookie descriptor of a record, as a load finds it.
NoDoc == [present |-> FALSE, cookie |-> "undefined", expires |-> "undefined"]
DocOf(rec) == [present |-> rec.present, cookie |-> rec.cookie,
               expires |-> rec.expires]

Docs ==
  {NoDoc}
  \cup {[present |-> TRUE, cookie |-> c, expires |-> "undefined"] :
          c \in CookieShapes \ {"object"}}
  \cup {[present |-> TRUE, cookie |-> "object", expires |-> e] : e \in ExpiresShapes}

\* What express-session stores: a cookie object whose expires is set from
\* the configured maxAge.
ValidDoc == [present |-> TRUE, cookie |-> "object", expires |-> ADate]

\* Variant of the corruption test without the look at cookie.expires.
CorruptedWithoutExpires(doc) ==
  \/ ~Truthy(doc.cookie)
  \/ TypeOf(doc.cookie) # "object"

\* !session.cookie || typeof session.cookie !== 'object' || !session.cookie.expires
Corrupted(doc) ==
  \/ ~Truthy(doc.cookie)
  \/ TypeOf(doc.cookie) # "object"
  \/ ~Truthy(doc.expires)

\* The attributes of a cookie that was not set.
NoAttributes == [httpOnly |-> FALSE, secure |-> FALSE, sameSite |-> "undefined",
                 path |-> "undefined", domain |-> "undefined"]

IdleReq ==
  [pc |-> "idle", kind |-> "none", ns |-> "user", cookieId |-> 0, sid |-> 0,
   hasSess |-> FALSE, suser |-> None, ruser |-> None, rrole |-> "none",
   cred |-> None, acked |-> None, status |-> 0, body |-> None, authd |-> FALSE,
   setCookie |-> 0, cleared |-> {}, bg |-> "none", expect |-> None,
   snap |-> << >>, seen |-> NoDoc, bodySid |-> 0, manual |-> << >>,
   tried |-> None, pwOk |-> FALSE, endOk |-> FALSE,
   email |-> None, roleBody |-> "none", valid |-> TRUE, existed |-> FALSE,
   made |-> FALSE, stored |-> None, at |-> 0, texp |-> 0,
   attrs |-> NoAttributes, mattrs |-> NoAttributes,
   loadErr |-> FALSE, ran |-> FALSE]

\* The sanitizer's collection, its get in progress, the answer of its last
\* get, and the ids a get has found corrupted with no write since (a get
\* notes whether its id was flagged when it began, and whether the record
\* was written over while the get was in progress, and how the destroy it
\* issued ended).
NoGet == [id |-> 0, outcome |-> "none", destroyed |-> FALSE, doc |-> NoDoc,
          again |-> FALSE, over |-> FALSE, dok |-> "none", calls |-> 0]
SanIds == 1..MaxDoc

\* The sanitizer's last set: the id and the session it was given, the
\* session it handed to the underlying set, the underlying set's result and
\* what the caller's callback was told.
NoSet == [id |-> 0, given |-> NoDoc, passed |-> NoDoc, result |-> "none",
          answer |-> "none"]
SanIdle == [docs |-> [i \in SanIds |-> NoDoc], pend |-> NoGet, last |-> NoGet,
            flagged |-> {}, set |-> NoSet]

\* The classifier's request: the x-client-type header, req.path, whether the
\* user / the admin cookie is in the Cookie header, Origin and Referer, and
\* the namespace isAdminRequest resolved ("none": not classified yet).
ClsIdle == [xct |-> "none", path |-> << >>, cU |-> 0, cA |-> 0, origin |-> << >>,
            referer |-> << >>, verdict |-> "none"]

\* ---------------------------------------------------- session configuration
\* The characters of a value of the SESSION_MAX_AGE environment variable.
EnvChars == {"0", "1", "5", "-", "s"}

\* The values of the variable: strings of at most MaxEnvLen characters (the
\* empty string stands for the unset variable as well: both are falsy).
EnvValues == UNION { [1..n -> EnvChars] : n \in 0..MaxEnvLen }

\* A JavaScript number: an integer or NaN.
Num(v) == [nan |-> FALSE, v |-> v]
NaN == [nan |-> TRUE, v |-> 0]

IsDigit(ch) == ch \in {"0", "1", "5"}
DigitValue(ch) == CASE ch = "1" -> 1 [] ch = "5" -> 5 [] OTHER -> 0

\* The number of leading decimal digits of s.
LeadingDigits(s) ==
  CHOOSE k \in 0..Len(s) :
     /\ \A i \in 1..k : IsDigit(s[i])
     /\ k = Len(s) \/ ~IsDigit(s[k + 1])

RECURSIVE Decimal(_)
Decimal(s) ==
  IF s = << >> THEN 0
  ELSE Decimal(SubSeq(s, 1, Len(s) - 1)) * 10 + DigitValue(s[Len(s)])

\* parseInt(string): an optional sign, then the decimal digits up to the
\* first character that is not one; NaN when there is no digit.
ParseInt(s) ==
  LET neg  == s # << >> /\ s[1] = "-"
      rest == IF neg THEN Tail(s) ELSE s
      k    == LeadingDigits(rest)
  IN IF k = 0 THEN NaN
     ELSE Num((IF neg THEN -1 ELSE 1) * Decimal(SubSeq(rest, 1, k)))

\* 7 days in milliseconds, the default maxAge.
DefaultMaxAge == 7 * 24 * 60 * 60 * 1000

\* SESSION_MAX_AGE = process.env.SESSION_MAX_AGE
\*   ? parseInt(process.env.SESSION_MAX_AGE) : 7 * 24 * 60 * 60 * 1000
SessionMaxAge(env) == IF env # << >> THEN ParseInt(env) ELSE Num(DefaultMaxAge)

\* SESSION_TTL = Math.floor(SESSION_MAX_AGE / 1000)
SessionTtl(maxAge) == IF maxAge.nan THEN NaN ELSE Num(maxAge.v \div 1000)

\* ttl: SESSION_TTL * 2, the option of the store of both session configs.
StoreTtl(sessionTtl) == IF sessionTtl.nan THEN NaN ELSE Num(sessionTtl.v * 2)

\* The configuration createSessionMiddleware computes when the server starts:
\* the value of the environment variable, the maxAge of the cookies and the
\* ttl (seconds) of the store of each partition (done: computed).
ConfIdle == [env |-> << >>, maxAge |-> Num(0), ttl |-> [ns \in Namespaces |-> Num(0)],
             done |-> FALSE]

\* --------------------------------------------------------------- payments
\* The characters of a transactionId of the request body.
TxnChars == {" ", "t"}

\* A field of a multipart body or of a document: a string or undefined.
Undefined == [def |-> FALSE, s |-> << >>]
Str(s) == [def |-> TRUE, s |-> s]

\* The transactionId values a submission may carry.
TxnInputs == {Undefined} \cup
             {Str(s) : s \in UNION { [1..n -> TxnChars] : n \in 0..MaxTxnLen }}

\* String.prototype.trim, the setter of a schema path with trim: true.
RECURSIVE TrimStart(_)
TrimStart(s) == IF s # << >> /\ Head(s) = " " THEN TrimStart(Tail(s)) ELSE s

RECURSIVE TrimEnd(_)
TrimEnd(s) ==
  IF s # << >> /\ s[Len(s)] = " " THEN TrimEnd(SubSeq(s, 1, Len(s) - 1)) ELSE s

Trim(v) == IF v.def THEN Str(TrimEnd(TrimStart(v.s))) ELSE v

\* if (transactionId): undefined and the empty string are falsy.
Provided(v) == v.def /\ v.s # << >>

\* The payments are keyed by their bookingId, which is unique.
BookingIds == 1..MaxBooking
Subs == 1..MaxSub

\* A Date that was never set.
NoDate == -1

\* A payment document: transactionId (trimmed, absent when undefined), status,
\* verifiedAt and verifiedBy.
NoPayment == [present |-> FALSE, txn |-> Undefined, status |-> "pending",
              verifiedAt |-> NoDate, verifiedBy |-> None]

PaymentStatuses == {"pending", "verified", "rejected"}

\* A submission (createPayment) between its awaits: the transactionId of its
\* body, the status it was answered with, and as history whether its save
\* failed for a reason of its own and the bookingId of the record it made.
IdleSub == [pc |-> "idle", txn |-> Undefined, status |-> 0, failed |-> FALSE,
            made |-> 0]

\* The status update (updatePaymentStatus) in progress: the payment id, the
\* requested status, the admin, the document findById loaded, the Date taken
\* for verifiedAt and the answer.
IdleUpd == [pc |-> "idle", id |-> 0, want |-> "none", by |-> None,
            doc |-> NoPayment, at |-> NoDate, status |-> 0]

\* History: the time and the admin of the last verifying or rejecting update
\* that was answered 200, per payment.
NoVerdict == [at |-> NoDate, by |-> None]

PayIdle == [recs |-> [b \in BookingIds |-> NoPayment],
            subs |-> [s \in Subs |-> IdleSub],
            upd |-> IdleUpd,
            lastV |-> [b \in BookingIds |-> NoVerdict]]

\* ------------------------------------------------------- payment settings
Calls == 1..MaxCall

\* The account numbers of the model: the one of the default settings and the
\* ones an admin may send.
DefaultAccount == "1234567890123"
AccountNumbers == {"x", "y"}

\* A call of getSettings or updatePaymentSettings between its awaits: what
\* findOne({ isActive: true }) gave it (0: null, else the position of the
\* document), the accountNumber of its body and the status of its answer.
IdleCall == [pc |-> "idle", kind |-> "none", found |-> 0, account |-> "none",
             status |-> 0]

\* The collection, in insertion order, and the calls.
PsetIdle == [docs |-> << >>, calls |-> [c \in Calls |-> IdleCall]]

\* -------------------------------------------------------- analytics window
\* A local time: the day, counted from 1 January 1970, and the hour.
At(day, hour) == [day |-> day, hour |-> hour]

\* The time of a request, the start of the week window computed for it and
\* the handler that computed it.
WkIdle == [now |-> At(0, 0), start |-> At(0, 0), by |-> "none"]

InitWith(n) ==
  /\ users = [p \in Principals |-> NoUser]
  /\ store = [ns \in Namespaces |-> [s \in Sids |-> NoRec]]
  /\ nextSid = 1
  /\ known = {}
  /\ reqs = [r \in 1..n |-> IdleReq]
  /\ obs = 0
  /\ authed = [ns \in Namespaces |-> [s \in Sids |-> None]]
  /\ now = 0
  /\ mode = "development"

Init == InitWith(MaxReq) /\ san = SanIdle /\ cls = ClsIdle /\ conf = ConfIdle /\ pay = PayIdle /\ pset = PsetIdle /\ wk = WkIdle

\* ---------------------------------------------------------- response helpers
\* express-session's on-headers hook puts the signed req.sessionID in the
\* Set-Cookie header when the response head is written (saveUninitialized and
\* rolling are both on), and its end hook then saves the session before the
\* last byte of the response goes out.  A generated id (sid = 0) is drawn from
\* genid the first time it is stored or sent.
NeedsAlloc(rq) == rq.hasSess /\ rq.sid = 0

\* isProduction: NODE_ENV === 'production' || RENDER || PORT
Modes == {"development", "production"}
IsProduction == mode = "production"

\* Variant of the cookie options that never marks the cookie secure.
CookieAttributesNeverSecure ==
  [httpOnly |-> TRUE, secure |-> FALSE,
   sameSite |-> IF IsProduction THEN "none" ELSE "lax",
   path |-> "/", domain |-> "undefined"]

\* The attributes of the session cookie: the cookie options of both session
\* configs, which the middleware sets again on every request.
CookieAttributes ==
  [httpOnly |-> TRUE, secure |-> IsProduction,
   sameSite |-> IF IsProduction THEN "none" ELSE "lax",
   path |-> "/", domain |-> "undefined"]

\* The server listens on plain HTTP and 'trust proxy' is not set: req.secure
\* is false for every request.
ConnectionSecure == FALSE

\* express-session's setcookie: a cookie marked secure is not sent over a
\* connection that is not secure.
SetsCookie(rq) == rq.hasSess /\ (CookieAttributes.secure => ConnectionSecure)

\* The responses whose body reports sessionId: req.sessionID.
ReportsSessionId(kind, st) == kind = "status" \/ (kind = "login" /\ st = 200)

\* The options of the res.cookie call in the res.end hook of the login
\* controller.
ManualAttributes ==
  [httpOnly |-> TRUE, secure |-> IsProduction,
   sameSite |-> IF IsProduction THEN "none" ELSE "lax",
   path |-> "/", domain |-> "undefined"]

\* The res.end hook of the login controller: no Set-Cookie header is there
\* yet when it runs (express-session adds its own when the head is written),
\* so it sets req.sessionID under req.session.cookie?.name || 'connect.sid',
\* and a session's cookie has no name.
FallbackCookie(ns) == "connect.sid"

Responded(rq, st, b, au) ==
  LET s == IF NeedsAlloc(rq) THEN nextSid ELSE rq.sid IN
  [rq EXCEPT !.status = st, !.body = b, !.authd = au, !.sid = s,
             !.texp = IF rq.hasSess THEN Touched(rq.texp, now) ELSE rq.texp,
             !.setCookie = IF SetsCookie(rq) THEN s ELSE 0,
             !.bodySid = IF rq.hasSess /\ ReportsSessionId(rq.kind, st) THEN s ELSE 0,
             !.manual = IF rq.kind = "login" /\ st = 200
                          THEN <<FallbackCookie(rq.ns), s>> ELSE << >>,
             !.attrs = IF SetsCookie(rq) THEN CookieAttributes ELSE NoAttributes,
             !.mattrs = IF rq.kind = "login" /\ st = 200
                          THEN ManualAttributes ELSE NoAttributes,
             !.pc = IF rq.hasSess THEN "endsave" ELSE "done"]

\* The session ids a response hands to the client in Set-Cookie headers.
Sent(resp) ==
  (IF resp.setCookie # 0 THEN {resp.setCookie} ELSE {})
  \cup (IF resp.manual # << >> THEN {resp.manual[2]} ELSE {})

Finish(r, rq, st, b, au) ==
  /\ NeedsAlloc(rq) => nextSid <= MaxSid
  /\ reqs' = [reqs EXCEPT ![r] = Responded(rq, st, b, au)]
  /\ nextSid' = IF NeedsAlloc(rq) THEN nextSid + 1 ELSE nextSid
  /\ known' = known \cup Sent(Responded(rq, st, b, au))
  /\ obs' = r

Continue(r, rq) ==
  /\ reqs' = [reqs EXCEPT ![r] = rq]
  /\ UNCHANGED <<nextSid, known, obs>>

\* What a request keeps once its response head is out: the session its end
\* hook will save, what it left running in the background and, for the login
\* routes, which login it was.  A request is over, and its slot free again,
\* when its response is complete and nothing it started is still running.
Over(pc, bg) == pc = "done" /\ bg = "none"

LoginKinds == {"login", "adminLogin", "signup"}

\* The routes behind isAuthenticated (and isAdmin).
GuardedKinds == {"logout", "me", "adminOnly"}

\* The read-only routes behind no guard: GET /api/products and GET /api/health.
PublicKinds == {"products", "health"}

Kept(rq) ==
  IF rq.pc = "done"
    THEN IdleReq
    ELSE [IdleReq EXCEPT !.pc = rq.pc, !.ns = rq.ns, !.sid = rq.sid,
                         !.hasSess = rq.hasSess, !.suser = rq.suser, !.bg = rq.bg,
                         !.texp = rq.texp,
                         !.kind = IF rq.kind \in LoginKinds \cup GuardedKinds
                                    THEN rq.kind ELSE "none",
                         !.status = IF rq.kind \in LoginKinds \cup GuardedKinds
                                      THEN rq.status ELSE 0,
                         !.ran = rq.ran,
                         !.cred = IF rq.kind \in LoginKinds THEN rq.cred ELSE None,
                         !.setCookie = IF rq.kind \in LoginKinds THEN rq.setCookie ELSE 0]

\* The response head (or the whole response) has left the server.
Observe ==
  /\ obs # 0
  /\ reqs' = [reqs EXCEPT ![obs] = Kept(reqs[obs])]
  /\ obs' = 0
  /\ UNCHANGED <<users, store, nextSid, known, authed, san, cls, now, mode, conf, pay, pset, wk>>

\* ------------------------------------------------------------------ guards
IsAuthenticated(rq) == rq.ruser # None

\* Variant of isAdmin without the role test.
IsAdminWithoutRole(rq) == IsAuthenticated(rq)

IsAdmin(rq) == IsAuthenticated(rq) /\ rq.rrole = "admin"

\* Variant of getAuthStatus without the look at the role.
StatusAuthenticatedAnyRole(rq) == rq.ruser # None

\* getAuthStatus: authenticated: !!req.user, unless req.user is an admin.
StatusAuthenticated(rq) == rq.ruser # None /\ rq.rrole # "admin"

\* getAdminAuthStatus: req.user && req.user.role === 'admin'
AdminStatusAuthenticated(rq) == rq.ruser # None /\ rq.rrole = "admin"

\* ------------------------------------------------------- passport wiring
\* Variant of the local strategy without the look at isActive.
StrategyWithoutActive(p, pwOk) ==
  IF ~users[p].exists THEN FALSE
  ELSE pwOk

\* The local strategy: the account exists, is active and the password matches.
Strategy(p, pwOk) ==
  IF ~users[p].exists THEN FALSE
  ELSE IF ~users[p].active THEN FALSE
  ELSE pwOk

InvalidCredentials == "Invalid email or password"
Deactivated == "Account is deactivated"

\* Variant of the strategy that tells an unknown e-mail from a wrong password.
StrategyMessageRevealing(p, pwOk) ==
  IF ~users[p].exists THEN "No account with this email"
  ELSE IF ~users[p].active THEN Deactivated
  ELSE InvalidCredentials

\* The info.message the strategy hands over with a failure; the route sends
\* it as the message of the 401.
StrategyMessage(p, pwOk) ==
  IF ~users[p].exists THEN InvalidCredentials
  ELSE IF ~users[p].active THEN Deactivated
  ELSE InvalidCredentials

\* Variant of the 401 branch that logs the presented session out.
FailedLoginClearsSession(rq) == [rq EXCEPT !.suser = None, !.ruser = None]

\* The 401 branch of the login routes: the session is left as it was loaded.
FailedLogin(rq) == rq

\* Variant of deserializeUser that resolves nobody.
DeserializeNobody(suser) == [ruser |-> None, rrole |-> "none"]

\* deserializeUser: the principal stored in the session, looked up again.
Deserialize(suser) ==
  IF suser # None /\ users[suser].exists
    THEN [ruser |-> suser, rrole |-> users[suser].role]
    ELSE [ruser |-> None, rrole |-> "none"]

\* --------------------------------------------------------- route handlers
\* What runs, after the session is loaded, up to the handler's first store or
\* database operation (or to its response).
ValidationFailed == "Validation failed"
AlreadyExists == "User with this email already exists"
CannotCreateAdmin == "Cannot create admin accounts through this endpoint"
ErrorCreating == "Error creating user"

\* Variant of the role check of signup that lets every role through.
RoleRefusedNever(role) == FALSE

\* signup: if (role === 'admin') return res.status(403)
RoleRefused(role) == role = "admin"

\* Variant of the look-up of signup that never finds an account.
ExistingUserNever(email) == FALSE

\* signup: existingUser = await User.findOne({ email: email.toLowerCase() })
ExistingUser(email) == users[ToLowerCase(email)].exists

Dispatch(r, rq, p, pwOk, roleBody, valid) ==
  CASE rq.kind = "status" ->
         LET au == StatusAuthenticated(rq) IN
         Finish(r, rq, 200, IF au THEN rq.ruser ELSE None, au)
    [] rq.kind = "adminStatus" ->
         LET au == AdminStatusAuthenticated(rq) IN
         Finish(r, rq, 200, IF au THEN rq.ruser ELSE None, au)
    [] rq.kind = "me" ->
         IF ~IsAuthenticated(rq) THEN Finish(r, rq, 401, None, FALSE)
         ELSE Continue(r, [rq EXCEPT !.pc = "me_find", !.ran = TRUE])
    [] rq.kind = "adminOnly" ->
         IF ~IsAuthenticated(rq) THEN Finish(r, rq, 401, None, FALSE)
         ELSE IF ~IsAdmin(rq) THEN Finish(r, rq, 403, None, FALSE)
         ELSE Finish(r, [rq EXCEPT !.ran = TRUE], 200, None, FALSE)
    [] rq.kind = "logout" ->
         IF ~IsAuthenticated(rq) THEN Finish(r, rq, 401, None, FALSE)
         ELSE Continue(r, [rq EXCEPT !.pc = "lo_save", !.ran = TRUE, !.suser = None,
                                     !.ruser = None, !.rrole = "none"])
    [] rq.kind \in {"login", "adminLogin"} ->
         LET tr == [rq EXCEPT !.tried = p, !.pwOk = pwOk] IN
         IF ~Strategy(p, pwOk)
           THEN Finish(r, FailedLogin(tr), 401, StrategyMessage(p, pwOk), FALSE)
           ELSE Continue(r, [tr EXCEPT !.pc = "regen", !.cred = p, !.ruser = p,
                                       !.rrole = users[p].role])
    [] rq.kind \in PublicKinds ->
         Finish(r, rq, 200, None, FALSE)
    [] rq.kind = "signup" ->
         LET sg == [rq EXCEPT !.email = p, !.roleBody = roleBody, !.valid = valid,
                              !.existed = users[ToLowerCase(p)].exists]
         IN
         IF ~valid THEN Finish(r, sg, 400, ValidationFailed, FALSE)
         ELSE IF RoleRefused(roleBody) THEN Finish(r, sg, 403, CannotCreateAdmin, FALSE)
         ELSE IF ExistingUser(p) THEN Finish(r, sg, 400, AlreadyExists, FALSE)
         ELSE Continue(r, [sg EXCEPT !.pc = "create", !.cred = ToLowerCase(p)])

\* ------------------------------------------------------- session middleware
Free(r) == reqs[r].pc = "idle"

\* Variant of the load that generates a new session for every request.
ResolvedIdAlwaysNew(found, c) == 0

\* The id of the request's session once the load has answered: the id of the
\* cookie when a session was found under it, a generated one (0: not drawn
\* yet) when not.
ResolvedId(found, c) == IF found THEN c ELSE 0

\* Variant of the load callback that goes on when the store failed.
LoadFailedIgnored(c, ok) == FALSE

\* The callback of the session middleware: if (err) ... return next(err),
\* for a request that presents a cookie and whose store.get fails (a note
\* of the failure is kept with the request).
LoadFailed(c, ok) == c # 0 /\ ~ok

\* What the store's get hands over: the document under the id, unless its
\* expiry has passed.
Unexpired(ns, c) == c # 0 /\ store[ns][c].present /\ now < store[ns][c].until

\* A request arrives: it is classified, the cookie of its namespace is read,
\* the session is loaded from that namespace's partition (or generated),
\* passport resolves req.user, and the route runs up to its first operation.
\* ok is the store's answer to the load.
Arrive(r, ok, kind, xct, cU, cA, origin, p, pwOk, roleBody, valid) ==
  /\ obs = 0
  /\ UNCHANGED sideVars
  /\ Free(r)
  /\ \A q \in Slots : q < r => ~Free(q)
  /\ LET ns == IF IsAdminRequest(xct, Path(kind), CookieHeader(cU, cA), origin, << >>)
                 THEN "admin" ELSE "user"
         c  == IF ns = "admin" THEN cA ELSE cU
         base == [IdleReq EXCEPT !.kind = kind, !.ns = ns, !.cookieId = c,
                                 !.at = now, !.loadErr = (c # 0 /\ ~ok),
                                 !.snap = IF kind = "logout" THEN store[Other(ns)]
                                          ELSE << >>]
     IN
     IF LoadFailed(c, ok)
       THEN \* store.get fails: next(err), the error handler answers 500
            /\ Finish(r, base, 500, None, FALSE)
            /\ UNCHANGED <<users, store, authed>>
       ELSE IF Unexpired(ns, c) /\ Corrupted(store[ns][c])
       THEN \* the sanitized store issues the destroy and answers in its callback
            /\ Continue(r, [base EXCEPT !.pc = "heal", !.seen = DocOf(store[ns][c])])
            /\ UNCHANGED <<users, store, authed>>
       ELSE LET found == Unexpired(ns, c)
                su == IF found THEN store[ns][c].user ELSE None
                d  == Deserialize(su)
                rq == [base EXCEPT !.hasSess = TRUE,
                                   !.seen = IF found THEN DocOf(store[ns][c]) ELSE NoDoc,
                                   !.sid = ResolvedId(found, c),
                                   !.stored = su,
                                   !.texp = Touched(IF found THEN store[ns][c].until
                                                    ELSE now + MaxAge, now),
                                   !.suser = IF d.ruser = None THEN None ELSE su,
                                   !.ruser = d.ruser, !.rrole = d.rrole,
                                   !.expect = IF c # 0 THEN authed[ns][c] ELSE None]
            IN /\ Dispatch(r, rq, p, pwOk, roleBody, valid)
               /\ authed' = IF kind = "logout" /\ found /\ authed[ns][c] # LoggedOut
                              THEN [authed EXCEPT ![ns][c] = None] ELSE authed
               /\ UNCHANGED <<users, store>>

\* The destroy the sanitized store issued for a corrupted record calls back:
\* the store answers "no session" whether or not the record was deleted,
\* express-session generates a new session and the route runs.
Heal(r, ok, p, pwOk, roleBody) ==
  LET rq == reqs[r] IN
  /\ obs = 0
  /\ UNCHANGED sideVars
  /\ rq.pc = "heal"
  /\ store' = IF ok THEN [store EXCEPT ![rq.ns][rq.cookieId] = NoRec] ELSE store
  /\ Dispatch(r, [rq EXCEPT !.hasSess = TRUE, !.sid = 0,
                            !.texp = Touched(now + MaxAge, now),
                            !.expect = authed[rq.ns][rq.cookieId]],
              p, pwOk, roleBody, TRUE)
  /\ UNCHANGED <<users, authed>>

UserNotFound == "User not found"

\* getCurrentUser behind isAuthenticated: the principal is fetched again by
\* id, and 404 is the answer when it is not there any more.
MeFind(r) ==
  LET rq == reqs[r] IN
  /\ obs = 0
  /\ UNCHANGED sideVars
  /\ rq.pc = "me_find"
  /\ IF users[rq.ruser].exists
       THEN Finish(r, rq, 200, rq.ruser, FALSE)
       ELSE Finish(r, rq, 404, UserNotFound, FALSE)
  /\ UNCHANGED <<users, store, authed>>

\* The end hook of express-session: the session of the request is written
\* under its id; a failed write is logged and the response still completes.
EndSave(r, ok) ==
  /\ obs = 0
  /\ UNCHANGED sideVars
  /\ reqs[r].pc = "endsave"
  /\ store' = IF ok
                THEN [store EXCEPT ![reqs[r].ns][reqs[r].sid] =
                                     Rec(reqs[r].suser, reqs[r].texp)]
                ELSE store
  /\ reqs' = [reqs EXCEPT ![r].pc = "done", ![r].endOk = ok]
  /\ obs' = IF Over("done", reqs[r].bg) THEN r ELSE 0
  /\ UNCHANGED <<users, nextSid, known, authed>>

\* ------------------------------------------------------------ login flows
\* The role checks of authController.login / adminLogin.  A refused login
\* calls req.logout(() => {}) without waiting for it: passport removes the
\* principal from the session at once and saves / regenerates in the
\* background while the 403 is already being sent.
LoginAllowed(rq) == rq.rrole # "admin"

AdminLoginAllowed(rq) == rq.rrole = "admin"

Refused(rq) == [rq EXCEPT !.suser = None, !.ruser = None, !.bg = "save"]

\* req.login, first half: session.regenerate destroys the old record and
\* generates a new session (also when the destroy fails).
\* Variant of the regeneration that keeps the id of the session it replaces.
RegeneratedIdKept(sid) == sid

\* session.regenerate: the new session has an id of its own (0: not drawn
\* yet), never the id of the session it replaces.
RegeneratedId(sid) == 0

Regen(r, ok) ==
  LET rq == reqs[r] IN
  /\ obs = 0
  /\ UNCHANGED sideVars
  /\ rq.pc = "regen"
  /\ IF ok
       THEN /\ store' = IF rq.sid # 0
                          THEN [store EXCEPT ![rq.ns][rq.sid] = NoRec] ELSE store
            /\ authed' = IF rq.sid # 0
                           THEN [authed EXCEPT ![rq.ns][rq.sid] = None] ELSE authed
            /\ Continue(r, [rq EXCEPT !.pc = "loginsave", !.sid = RegeneratedId(rq.sid),
                                        !.texp = now + MaxAge,
                                        !.suser = rq.cred])
       ELSE /\ Finish(r, [rq EXCEPT !.sid = 0, !.suser = None, !.ruser = None,
                                   !.texp = now + MaxAge],
                      500, None, FALSE)
            /\ UNCHANGED <<store, authed>>
  /\ UNCHANGED users

\* Variant of the callbacks that never looks at the error.
SaveNeverFailed(ok) == FALSE

\* The `if (err) return next(err)` of the callbacks of req.login and of
\* req.session.save.
SaveFailed(ok) == ~ok

\* req.login, second half: passport saves the new session, which now holds
\* the principal; POST /admin/login then runs its controller at once.
LoginSave(r, ok) ==
  LET rq == reqs[r]
      id == IF NeedsAlloc(rq) THEN nextSid ELSE rq.sid
      saved == [rq EXCEPT !.sid = id,
                          !.acked = IF ok THEN rq.suser ELSE rq.acked]
  IN
  /\ obs = 0
  /\ UNCHANGED sideVars
  /\ rq.pc = "loginsave"
  /\ NeedsAlloc(rq) => nextSid <= MaxSid
  /\ nextSid' = IF NeedsAlloc(rq) THEN nextSid + 1 ELSE nextSid
  /\ store' = IF ok THEN [store EXCEPT ![rq.ns][id] = Rec(rq.suser, rq.texp)]
                ELSE store
  /\ IF SaveFailed(ok)
       THEN /\ reqs' = [reqs EXCEPT ![r] =
                  Responded([saved EXCEPT !.ruser = None], 500, None, FALSE)]
            /\ known' = known \cup Sent(reqs'[r])
            /\ obs' = r
       ELSE IF rq.kind = "adminLogin"
         THEN /\ reqs' = [reqs EXCEPT ![r] =
                    IF AdminLoginAllowed(rq)
                      THEN Responded(saved, 200, rq.cred, FALSE)
                      ELSE Responded(Refused(saved), 403, None, FALSE)]
              /\ known' = known \cup Sent(reqs'[r])
              /\ obs' = r
         ELSE /\ reqs' = [reqs EXCEPT ![r] = [saved EXCEPT !.pc = "routesave"]]
              /\ UNCHANGED <<known, obs>>
  /\ authed' = IF ~SaveFailed(ok) /\ rq.kind = "adminLogin" /\ AdminLoginAllowed(rq)
                 THEN [authed EXCEPT ![rq.ns][id] = rq.cred] ELSE authed
  /\ UNCHANGED users

\* The explicit req.session.save of POST /login and of signup, then the
\* controller: the response is written only in the save's callback.
RouteSave(r, ok) ==
  LET rq == [reqs[r] EXCEPT !.acked = IF ok THEN reqs[r].suser ELSE reqs[r].acked] IN
  /\ obs = 0
  /\ UNCHANGED sideVars
  /\ rq.pc = "routesave"
  /\ store' = IF ok THEN [store EXCEPT ![rq.ns][rq.sid] = Rec(rq.suser, rq.texp)]
                ELSE store
  /\ IF SaveFailed(ok)
       THEN Finish(r, rq, 500, None, FALSE) /\ authed' = authed
       ELSE IF rq.kind = "signup"
         THEN Finish(r, rq, 201, rq.cred, FALSE) /\ authed' = authed
         ELSE IF LoginAllowed(rq)
           THEN /\ Finish(r, rq, 200, rq.cred, FALSE)
                /\ authed' = [authed EXCEPT ![rq.ns][rq.sid] = rq.cred]
           ELSE Finish(r, Refused(rq), 403, None, FALSE) /\ authed' = authed
  /\ UNCHANGED users

\* The background half of a refused login's req.logout: save, then regenerate.
BgLogoutSave(r, ok) ==
  LET rq == reqs[r] IN
  /\ obs = 0
  /\ UNCHANGED sideVars
  /\ rq.bg = "save"
  /\ store' = IF ok THEN [store EXCEPT ![rq.ns][rq.sid] = Rec(None, rq.texp)]
                ELSE store
  /\ authed' = IF ok THEN [authed EXCEPT ![rq.ns][rq.sid] = None] ELSE authed
  /\ reqs' = [reqs EXCEPT ![r].bg = IF ok THEN "destroy" ELSE "none"]
  /\ obs' = IF ~ok /\ Over(rq.pc, "none") THEN r ELSE 0
  /\ UNCHANGED <<users, nextSid, known>>

BgLogoutDestroy(r, ok) ==
  LET rq == reqs[r] IN
  /\ obs = 0
  /\ UNCHANGED sideVars
  /\ rq.bg = "destroy"
  /\ store' = IF ok THEN [store EXCEPT ![rq.ns][rq.sid] = NoRec] ELSE store
  /\ reqs' = [reqs EXCEPT ![r].bg = "none"]
  /\ obs' = IF Over(rq.pc, "none") THEN r ELSE 0
  /\ UNCHANGED <<users, nextSid, known, authed>>

\* Variant of signup that takes the role of the new account from the body.
SignupRoleFromBody(role) == IF role \in {"user", "admin"} THEN role ELSE "user"

\* signup: new User({ ..., role: 'user' })
SignupRole(role) == "user"

\* The users collection has a unique index on the (lower-case) e-mail: an
\* insert of an e-mail that is already there fails with a duplicate key.
DuplicateKey(email) == users[email].exists

\* signup: newUser.save() after the findOne found nothing; a rejected save
\* lands in the catch of the controller, which answers 500.  Then req.login.
Create(r) ==
  LET rq == reqs[r] IN
  /\ obs = 0
  /\ UNCHANGED sideVars
  /\ rq.pc = "create"
  /\ IF DuplicateKey(rq.cred)
       THEN Finish(r, rq, 500, ErrorCreating, FALSE) /\ users' = users
       ELSE /\ users' = [users EXCEPT ![rq.cred] =
                           [exists |-> TRUE, role |-> SignupRole(rq.roleBody),
                            active |-> TRUE]]
            /\ Continue(r, [rq EXCEPT !.pc = "regen", !.ruser = rq.cred,
                                        !.rrole = SignupRole(rq.roleBody),
                                        !.made = TRUE])
  /\ UNCHANGED <<store, authed>>

\* ------------------------------------------------------------------ logout
\* req.logout(cb): the principal is removed and the session saved ...
LogoutSave(r, ok) ==
  LET rq == reqs[r] IN
  /\ obs = 0
  /\ UNCHANGED sideVars
  /\ rq.pc = "lo_save"
  /\ IF ok
       THEN /\ store' = [store EXCEPT ![rq.ns][rq.sid] = Rec(None, rq.texp)]
            /\ authed' = authed
            /\ Continue(r, [rq EXCEPT !.pc = "lo_destroy"])
       ELSE /\ Finish(r, rq, 500, None, FALSE)
            /\ UNCHANGED <<store, authed>>
  /\ UNCHANGED users

\* ... then regenerated: the record is destroyed and a new session generated.
LogoutDestroy(r, ok) ==
  LET rq == reqs[r] IN
  /\ obs = 0
  /\ UNCHANGED sideVars
  /\ rq.pc = "lo_destroy"
  /\ IF ok
       THEN /\ store' = [store EXCEPT ![rq.ns][rq.sid] = NoRec]
            /\ Continue(r, [rq EXCEPT !.pc = "sess_destroy", !.sid = 0,
                                        !.texp = now + MaxAge])
       ELSE /\ Finish(r, [rq EXCEPT !.sid = 0, !.texp = now + MaxAge],
                      500, None, FALSE)
            /\ store' = store
  /\ UNCHANGED <<users, authed>>

\* req.session.destroy of the (never stored) new session, then both cookies
\* are cleared and 200 is sent; the request has no session left to save.
SessDestroy(r, ok) ==
  LET rq == reqs[r] IN
  /\ obs = 0
  /\ UNCHANGED sideVars
  /\ rq.pc = "sess_destroy"
  /\ reqs' = [reqs EXCEPT ![r] =
       IF ok
         THEN [rq EXCEPT !.pc = "done", !.hasSess = FALSE, !.status = 200,
                         !.cleared = {"connect.sid", "admin.connect.sid"}]
         ELSE [rq EXCEPT !.pc = "done", !.hasSess = FALSE, !.status = 500]]
  /\ obs' = r
  /\ authed' = IF ok /\ rq.cookieId # 0
                 THEN [authed EXCEPT ![rq.ns][rq.cookieId] = LoggedOut] ELSE authed
  /\ UNCHANGED <<users, store, nextSid, known>>

\* -------------------------------------------------------------- environment
\* scripts/createAdminUser.js: admin@gemstones.com is created as admin, or
\* the existing account of that e-mail is given the admin role.
CreateAdminUser ==
  /\ obs = 0
  /\ UNCHANGED sideVars
  /\ ~(users["a"].exists /\ users["a"].role = "admin")
  /\ users' = [users EXCEPT !["a"] =
                 IF users["a"].exists THEN [users["a"] EXCEPT !.role = "admin"]
                 ELSE [exists |-> TRUE, role |-> "admin", active |-> TRUE]]
  /\ UNCHANGED <<store, nextSid, known, reqs, obs, authed>>

\* A role change of an existing admin back to user.
Demote(p) ==
  /\ obs = 0
  /\ UNCHANGED sideVars
  /\ users[p].exists /\ users[p].role = "admin"
  /\ users' = [users EXCEPT ![p].role = "user"]
  /\ UNCHANGED <<store, nextSid, known, reqs, obs, authed>>

\* An account is removed from the users collection.
Remove(p) ==
  /\ obs = 0
  /\ UNCHANGED sideVars
  /\ users[p].exists
  /\ users' = [users EXCEPT ![p] = NoUser]
  /\ UNCHANGED <<store, nextSid, known, reqs, obs, authed>>

\* An account is deactivated: its isActive flag is set to false.
Deactivate(p) ==
  /\ obs = 0
  /\ UNCHANGED sideVars
  /\ users[p].exists /\ users[p].active
  /\ users' = [users EXCEPT ![p].active = FALSE]
  /\ UNCHANGED <<store, nextSid, known, reqs, obs, authed>>

\* Time passes.
Tick ==
  /\ obs = 0
  /\ now < MaxTime
  /\ now' = now + 1
  /\ UNCHANGED <<users, store, nextSid, known, reqs, obs, authed, san, cls, mode, conf, pay, pset, wk>>

\* ------------------------------------------------------------ specification
\* What a client sends: a kind of request, the x-client-type header or not,
\* a session id it was given (under both cookie names, so that the cookie of
\* the request's namespace is the one read) or no cookie, and the credentials
\* of a principal.
Send(r, ok, kind, xct, c, p, pwOk, roleBody) ==
  Arrive(r, ok, kind, xct, c, c, << >>, p, pwOk, roleBody, TRUE)

Request ==
  \E r \in Slots, xct \in {"admin", "none"}, c \in {0} \cup known, ok \in BOOLEAN :
     /\ c = 0 => ok
     /\ \/ \E kind \in {"logout", "me", "status", "adminStatus", "adminOnly"} :
             Send(r, ok, kind, xct, c, "a", FALSE, "none")
        \/ \E kind \in {"login", "adminLogin"}, p \in Principals, pwOk \in BOOLEAN :
             Send(r, ok, kind, xct, c, p, pwOk, "none")
        \/ \E p \in Principals, roleBody \in {"admin", "none"} :
             Send(r, ok, "signup", xct, c, p, FALSE, roleBody)

Next ==
  \/ Request
  \/ Observe
  \/ \E r \in Slots : MeFind(r)
  \/ \E r \in Slots, ok \in BOOLEAN : EndSave(r, ok)
  \/ \E r \in Slots, ok \in BOOLEAN : Regen(r, ok)
  \/ \E r \in Slots, ok \in BOOLEAN : LoginSave(r, ok)
  \/ \E r \in Slots, ok \in BOOLEAN : RouteSave(r, ok)
  \/ \E r \in Slots, ok \in BOOLEAN : BgLogoutSave(r, ok)
  \/ \E r \in Slots, ok \in BOOLEAN : BgLogoutDestroy(r, ok)
  \/ \E r \in Slots : Create(r)
  \/ \E r \in Slots, ok \in BOOLEAN : LogoutSave(r, ok)
  \/ \E r \in Slots, ok \in BOOLEAN : LogoutDestroy(r, ok)
  \/ \E r \in Slots, ok \in BOOLEAN : SessDestroy(r, ok)
  \/ CreateAdminUser

Spec == Init /\ [][Next]_vars

\* The same server when an administrator's role can also be taken away.
NextRoles ==
  \/ Next
  \/ \E p \in Principals : Demote(p)

SpecRoles == Init /\ [][NextRoles]_vars

\* ---------------------------------------------------------- the storefront
\* The storefront on its own, with requests that overlap: one shopper who
\* signs up, logs in, asks for the status and logs out, sending no admin
\* header and presenting the cookie the server gave.
ShopRequest ==
  \E r \in Slots, c \in {0} \cup known, ok \in BOOLEAN :
     /\ c = 0 => ok
     /\ \/ \E kind \in {"logout", "status"} :
             Send(r, ok, kind, "none", c, "u", FALSE, "none")
        \/ Send(r, ok, "login", "none", c, "u", TRUE, "none")
        \/ Send(r, ok, "signup", "none", c, "u", FALSE, "none")

InitShop == InitWith(MaxShop) /\ san = SanIdle /\ cls = ClsIdle /\ conf = ConfIdle /\ pay = PayIdle /\ pset = PsetIdle /\ wk = WkIdle

NextShop ==
  \/ ShopRequest
  \/ Observe
  \/ \E r \in Slots, ok \in BOOLEAN : EndSave(r, ok)
  \/ \E r \in Slots, ok \in BOOLEAN : Regen(r, ok)
  \/ \E r \in Slots, ok \in BOOLEAN : LoginSave(r, ok)
  \/ \E r \in Slots, ok \in BOOLEAN : RouteSave(r, ok)
  \/ \E r \in Slots : Create(r)
  \/ \E r \in Slots, ok \in BOOLEAN : LogoutSave(r, ok)
  \/ \E r \in Slots, ok \in BOOLEAN : LogoutDestroy(r, ok)
  \/ \E r \in Slots, ok \in BOOLEAN : SessDestroy(r, ok)

SpecShop == InitShop /\ [][NextShop]_vars

\* ------------------------------------------------------------ signing up
\* POST /api/auth/signup on its own, with requests that overlap: the e-mail
\* in either spelling, a body with no role, with role "admin" or with another
\* role, and a body that passes the validators or not.
SignupEmails == {"u", "U"}
SignupRoles == {"none", "admin", "Admin"}

SignupRequest ==
  \E r \in Slots, c \in {0} \cup known, ok \in BOOLEAN, email \in SignupEmails,
     roleBody \in SignupRoles, valid \in BOOLEAN :
     /\ c = 0 => ok
     /\ Arrive(r, ok, "signup", "none", c, c, << >>, email, FALSE, roleBody, valid)

InitSignup == InitWith(MaxShop) /\ san = SanIdle /\ cls = ClsIdle /\ conf = ConfIdle /\ pay = PayIdle /\ pset = PsetIdle /\ wk = WkIdle

NextSignup ==
  \/ SignupRequest
  \/ Observe
  \/ \E r \in Slots, ok \in BOOLEAN : EndSave(r, ok)
  \/ \E r \in Slots, ok \in BOOLEAN : Regen(r, ok)
  \/ \E r \in Slots, ok \in BOOLEAN : LoginSave(r, ok)
  \/ \E r \in Slots, ok \in BOOLEAN : RouteSave(r, ok)
  \/ \E r \in Slots : Create(r)

SpecSignup == InitSignup /\ [][NextSignup]_vars

\* ------------------------------------------------------------ rolling expiry
\* The status checks of both namespaces while time passes: a client that
\* sends them with no cookie or with a cookie the server gave earlier, which
\* may have expired since.
RollingRequest ==
  \E r \in Slots, xct \in {"admin", "none"}, c \in {0} \cup known, ok \in BOOLEAN :
     /\ c = 0 => ok
     /\ \E kind \in {"status", "adminStatus"} :
           Send(r, ok, kind, xct, c, "a", FALSE, "none")

InitRolling == InitWith(MaxReq) /\ san = SanIdle /\ cls = ClsIdle /\ conf = ConfIdle /\ pay = PayIdle /\ pset = PsetIdle /\ wk = WkIdle

NextRolling ==
  \/ RollingRequest
  \/ Observe
  \/ \E r \in Slots, ok \in BOOLEAN : EndSave(r, ok)
  \/ Tick

SpecRolling == InitRolling /\ [][NextRolling]_vars

\* ------------------------------------------------------------- deployments
\* The server started in either deployment over accounts that exist: the
\* logins and the status checks of both namespaces.
DeployRequest ==
  \E r \in Slots, xct \in {"admin", "none"}, c \in {0} \cup known, ok \in BOOLEAN :
     /\ c = 0 => ok
     /\ \/ \E kind \in {"status", "adminStatus"} :
             Send(r, ok, kind, xct, c, "a", FALSE, "none")
        \/ \E kind \in {"login", "adminLogin"}, p \in Principals :
             Send(r, ok, kind, xct, c, p, TRUE, "none")

InitDeploy ==
  /\ users = [p \in Principals |->
                [exists |-> TRUE, active |-> TRUE,
                 role |-> IF p = "a" THEN "admin" ELSE "user"]]
  /\ store = [ns \in Namespaces |-> [s \in Sids |-> NoRec]]
  /\ nextSid = 1
  /\ known = {}
  /\ reqs = [r \in 1..MaxReq |-> IdleReq]
  /\ obs = 0
  /\ authed = [ns \in Namespaces |-> [s \in Sids |-> None]]
  /\ san = SanIdle
  /\ cls = ClsIdle /\ conf = ConfIdle /\ pay = PayIdle /\ pset = PsetIdle /\ wk = WkIdle
  /\ now = 0
  /\ mode \in Modes

NextDeploy ==
  \/ DeployRequest
  \/ Observe
  \/ \E r \in Slots, ok \in BOOLEAN : EndSave(r, ok)
  \/ \E r \in Slots, ok \in BOOLEAN : Regen(r, ok)
  \/ \E r \in Slots, ok \in BOOLEAN : LoginSave(r, ok)
  \/ \E r \in Slots, ok \in BOOLEAN : RouteSave(r, ok)
  \/ \E r \in Slots, ok \in BOOLEAN : BgLogoutSave(r, ok)
  \/ \E r \in Slots, ok \in BOOLEAN : BgLogoutDestroy(r, ok)

SpecDeploy == InitDeploy /\ [][NextDeploy]_vars

\* ------------------------------------------------------------ configuration
\* createSessionMiddleware is called once, when the server starts, under
\* some value of SESSION_MAX_AGE.
Configure ==
  /\ ~conf.done
  /\ LET maxAge == SessionMaxAge(conf.env) IN
     conf' = [conf EXCEPT !.maxAge = maxAge,
                          !.ttl = [ns \in Namespaces |-> StoreTtl(SessionTtl(maxAge))],
                          !.done = TRUE]
  /\ UNCHANGED <<users, store, nextSid, known, reqs, obs, authed, san, cls, now, mode,
               pay, pset, wk>>

InitConfig ==
  /\ InitWith(MaxReq)
  /\ san = SanIdle
  /\ cls = ClsIdle
  /\ conf \in [env : EnvValues, maxAge : {Num(0)},
                ttl : {[ns \in Namespaces |-> Num(0)]}, done : {FALSE}]
  /\ pay = PayIdle /\ pset = PsetIdle /\ wk = WkIdle

NextConfig == Configure

SpecConfig == InitConfig /\ [][NextConfig]_vars

\* --------------------------------------------------- accounts deactivated
\* The server over an admin and a user account that exist when it starts and
\* can be deactivated while it runs, under logins with the right password,
\* logouts, the guarded routes and the status checks.
ActiveRequest ==
  \E r \in Slots, xct \in {"admin", "none"}, c \in {0} \cup known, ok \in BOOLEAN :
     /\ c = 0 => ok
     /\ \/ \E kind \in {"logout", "me", "status", "adminStatus", "adminOnly"} :
             Send(r, ok, kind, xct, c, "a", FALSE, "none")
        \/ \E kind \in {"login", "adminLogin"}, p \in Principals :
             Send(r, ok, kind, xct, c, p, TRUE, "none")

InitActive ==
  /\ users = [p \in Principals |->
                [exists |-> TRUE, active |-> TRUE,
                 role |-> IF p = "a" THEN "admin" ELSE "user"]]
  /\ store = [ns \in Namespaces |-> [s \in Sids |-> NoRec]]
  /\ nextSid = 1
  /\ known = {}
  /\ reqs = [r \in 1..MaxReq |-> IdleReq]
  /\ obs = 0
  /\ authed = [ns \in Namespaces |-> [s \in Sids |-> None]]
  /\ san = SanIdle
  /\ cls = ClsIdle /\ conf = ConfIdle /\ pay = PayIdle /\ pset = PsetIdle /\ wk = WkIdle
  /\ now = 0
  /\ mode = "development"

NextActive ==
  \/ ActiveRequest
  \/ Observe
  \/ \E r \in Slots : MeFind(r)
  \/ \E r \in Slots, ok \in BOOLEAN : EndSave(r, ok)
  \/ \E r \in Slots, ok \in BOOLEAN : Regen(r, ok)
  \/ \E r \in Slots, ok \in BOOLEAN : LoginSave(r, ok)
  \/ \E r \in Slots, ok \in BOOLEAN : RouteSave(r, ok)
  \/ \E r \in Slots, ok \in BOOLEAN : BgLogoutSave(r, ok)
  \/ \E r \in Slots, ok \in BOOLEAN : BgLogoutDestroy(r, ok)
  \/ \E r \in Slots, ok \in BOOLEAN : LogoutSave(r, ok)
  \/ \E r \in Slots, ok \in BOOLEAN : LogoutDestroy(r, ok)
  \/ \E r \in Slots, ok \in BOOLEAN : SessDestroy(r, ok)
  \/ \E p \in Principals : Deactivate(p)

SpecActive == InitActive /\ [][NextActive]_vars

\* ------------------------------------------------------------ public routes
\* The server under requests to the read-only public routes and to a route
\* behind the guards, with or without a cookie the server gave out.
PublicRequest ==
  \E r \in Slots, xct \in {"admin", "none"}, c \in {0} \cup known, ok \in BOOLEAN :
     /\ c = 0 => ok
     /\ \/ \E kind \in PublicKinds \cup {"adminOnly", "status"} :
             Send(r, ok, kind, xct, c, "a", FALSE, "none")
        \/ \E kind \in {"login", "adminLogin"}, p \in Principals :
             Send(r, ok, kind, xct, c, p, TRUE, "none")

InitPublic == InitWith(MaxReq) /\ san = SanIdle /\ cls = ClsIdle /\ conf = ConfIdle /\ pay = PayIdle /\ pset = PsetIdle /\ wk = WkIdle

NextPublic ==
  \/ PublicRequest
  \/ Observe
  \/ \E r \in Slots, ok \in BOOLEAN : EndSave(r, ok)
  \/ \E r \in Slots, ok \in BOOLEAN : Regen(r, ok)
  \/ \E r \in Slots, ok \in BOOLEAN : LoginSave(r, ok)
  \/ \E r \in Slots, ok \in BOOLEAN : RouteSave(r, ok)
  \/ \E r \in Slots, ok \in BOOLEAN : BgLogoutSave(r, ok)
  \/ \E r \in Slots, ok \in BOOLEAN : BgLogoutDestroy(r, ok)
  \/ CreateAdminUser

SpecPublic == InitPublic /\ [][NextPublic]_vars

\* ------------------------------------------------------- accounts removed
\* The server over accounts that exist when it starts and can be removed
\* while it runs: logins, GET /me and the status checks.
GoneRequest ==
  \E r \in Slots, xct \in {"admin", "none"}, c \in {0} \cup known, ok \in BOOLEAN :
     /\ c = 0 => ok
     /\ \/ \E kind \in {"me", "status", "adminStatus"} :
             Send(r, ok, kind, xct, c, "a", FALSE, "none")
        \/ \E kind \in {"login", "adminLogin"}, p \in Principals :
             Send(r, ok, kind, xct, c, p, TRUE, "none")

InitGone ==
  /\ InitWith(MaxReq)
  /\ san = SanIdle
  /\ cls = ClsIdle /\ conf = ConfIdle /\ pay = PayIdle /\ pset = PsetIdle /\ wk = WkIdle

NextGone ==
  \/ GoneRequest
  \/ Observe
  \/ \E r \in Slots : MeFind(r)
  \/ \E r \in Slots, ok \in BOOLEAN : EndSave(r, ok)
  \/ \E r \in Slots, ok \in BOOLEAN : Regen(r, ok)
  \/ \E r \in Slots, ok \in BOOLEAN : LoginSave(r, ok)
  \/ \E r \in Slots, ok \in BOOLEAN : RouteSave(r, ok)
  \/ \E r \in Slots, ok \in BOOLEAN : BgLogoutSave(r, ok)
  \/ \E r \in Slots, ok \in BOOLEAN : BgLogoutDestroy(r, ok)
  \/ CreateAdminUser
  \/ \E p \in Principals : Remove(p)

SpecGone == InitGone /\ [][NextGone]_vars

\* ------------------------------------------------------ accounts of any kind
\* The login routes over a users collection that holds accounts of any kind
\* when the server starts (none, active or deactivated, user or admin), with
\* a store that answers.
UserShapes ==
  {NoUser} \cup {[exists |-> TRUE, role |-> ro, active |-> ac] :
                   ro \in {"user", "admin"}, ac \in BOOLEAN}

LoginRequest ==
  \E r \in Slots, xct \in {"admin", "none"}, c \in {0} \cup known,
     kind \in {"login", "adminLogin"}, p \in Principals, pwOk \in BOOLEAN :
     Send(r, TRUE, kind, xct, c, p, pwOk, "none")

InitAccounts ==
  /\ users \in [Principals -> UserShapes]
  /\ store = [ns \in Namespaces |-> [s \in Sids |-> NoRec]]
  /\ nextSid = 1
  /\ known = {}
  /\ reqs = [r \in 1..MaxReq |-> IdleReq]
  /\ obs = 0
  /\ authed = [ns \in Namespaces |-> [s \in Sids |-> None]]
  /\ san = SanIdle
  /\ cls = ClsIdle /\ conf = ConfIdle /\ pay = PayIdle /\ pset = PsetIdle /\ wk = WkIdle
  /\ now = 0
  /\ mode = "development"

NextAccounts ==
  \/ LoginRequest
  \/ Observe
  \/ \E r \in Slots : EndSave(r, TRUE)
  \/ \E r \in Slots : Regen(r, TRUE)
  \/ \E r \in Slots : LoginSave(r, TRUE)
  \/ \E r \in Slots : RouteSave(r, TRUE)
  \/ \E r \in Slots : BgLogoutSave(r, TRUE)
  \/ \E r \in Slots : BgLogoutDestroy(r, TRUE)

SpecAccounts == InitAccounts /\ [][NextAccounts]_vars

\* ------------------------------------------------- records found damaged
\* The server started over collections that already hold a record, of any
\* shape, whose id a client still presents: read-only requests of both
\* namespaces, in the order the client sends them.
HealRequest ==
  \E r \in Slots, xct \in {"admin", "none"}, c \in {0} \cup known, ok \in BOOLEAN :
     /\ c = 0 => ok
     /\ \E kind \in {"me", "status", "adminStatus", "adminOnly"} :
           Send(r, ok, kind, xct, c, "a", FALSE, "none")

StoredShapes ==
  {[present |-> TRUE, user |-> u, cookie |-> d.cookie, expires |-> d.expires,
    until |-> MaxAge] :
     u \in {None} \cup Principals, d \in Docs \ {NoDoc}}

InitHeal ==
  /\ users = [p \in Principals |->
                [exists |-> TRUE, active |-> TRUE,
                 role |-> IF p = "a" THEN "admin" ELSE "user"]]
  /\ \E ns \in Namespaces, rec \in StoredShapes :
        store = [n \in Namespaces |-> [s \in Sids |->
                   IF n = ns /\ s = 1 THEN rec ELSE NoRec]]
  /\ nextSid = 2
  /\ known = {1}
  /\ reqs = [r \in 1..MaxReq |-> IdleReq]
  /\ obs = 0
  /\ authed = [ns \in Namespaces |-> [s \in Sids |-> None]]
  /\ san = SanIdle
  /\ cls = ClsIdle /\ conf = ConfIdle /\ pay = PayIdle /\ pset = PsetIdle /\ wk = WkIdle
  /\ now = 0
  /\ mode = "development"

NextHeal ==
  \/ HealRequest
  \/ Observe
  \/ \E r \in Slots, ok \in BOOLEAN : Heal(r, ok, "a", FALSE, "none")
  \/ \E r \in Slots : MeFind(r)
  \/ \E r \in Slots, ok \in BOOLEAN : EndSave(r, ok)

SpecHeal == InitHeal /\ [][NextHeal]_vars

\* ------------------------------------------------------ the sanitized store
\* createSanitizedMongoStore seen on its own.  A stored session is described
\* by the JavaScript values of session.cookie and session.cookie.expires as
\* the underlying get hands them over (the store keeps BSON, stringify is
\* off, so a date comes back as a Date).
mainVars == <<users, store, nextSid, known, reqs, obs, authed, cls, now, mode, conf, pay, pset, wk>>

\* store.get, up to the answer of the underlying get: an error and a missing
\* record are handed on, a valid session is returned, and for a corrupted one
\* the destroy is issued.
\* Variant of the call of the caller's callback that leaves no trace of
\* the call.
CallbackUncounted(g, outcome) == [g EXCEPT !.outcome = outcome]

\* callback(err) / callback(null, null) / callback(null, session): the
\* caller of get is answered, once more.
Callback(g, outcome) == [g EXCEPT !.outcome = outcome, !.calls = @ + 1]

SanGet(id, ok) ==
  LET doc == san.docs[id]
      get(d) == [NoGet EXCEPT !.id = id, !.doc = d, !.again = id \in san.flagged]
  IN
  /\ san.pend.id = 0
  /\ san' =
       IF ~ok THEN [san EXCEPT !.last = Callback(get(NoDoc), "err")]
       ELSE IF ~doc.present THEN [san EXCEPT !.last = Callback(get(NoDoc), "null")]
       ELSE IF Corrupted(doc)
         THEN [san EXCEPT !.pend = [get(doc) EXCEPT !.destroyed = TRUE]]
         ELSE [san EXCEPT !.last = Callback(get(doc), "session")]
  /\ UNCHANGED mainVars

\* Variant of the destroy callback that hands the destroy's error on.
DestroyAnswerPropagates(ok) == IF ok THEN "null" ELSE "err"

\* What the destroy callback hands to the caller of get: callback(null, null).
DestroyAnswer(ok) == "null"

\* The callback of that destroy: whether or not the record was deleted, the
\* caller is told that there is no session.
SanDestroy(ok) ==
  /\ san.pend.id # 0
  /\ san' = [san EXCEPT
               !.docs = IF ok THEN [san.docs EXCEPT ![san.pend.id] = NoDoc]
                        ELSE san.docs,
               !.last = Callback([san.pend EXCEPT !.dok = IF ok THEN "ok" ELSE "failed"],
                                 DestroyAnswer(ok)),
               !.pend = NoGet,
               !.flagged = IF san.pend.over THEN san.flagged
                           ELSE san.flagged \cup {san.pend.id}]
  /\ UNCHANGED mainVars

\* Variant of the set that repairs a corrupted session before it is written.
PassedRepaired(doc) == IF Corrupted(doc) THEN ValidDoc ELSE doc

\* originalSet(sessionId, session, ...): the session handed to the
\* underlying set is the one the sanitizer was given.
Passed(doc) == doc

\* if (callback) callback(err): the caller is told what the underlying set
\* answered.
SetAnswer(result) == result

\* store.set: the session handed over is written as it is, and the result
\* of the underlying set is the answer.
SanSet(id, doc, ok) ==
  LET result == IF ok THEN "ok" ELSE "err"
      note   == [id |-> id, given |-> doc, passed |-> Passed(doc),
                 result |-> result, answer |-> SetAnswer(result)]
  IN
  /\ san' = IF ok
              THEN [san EXCEPT !.docs = [san.docs EXCEPT ![id] = Passed(doc)],
                               !.flagged = san.flagged \ {id},
                               !.pend = IF san.pend.id = id
                                          THEN [san.pend EXCEPT !.over = TRUE]
                                          ELSE san.pend,
                               !.set = note]
              ELSE [san EXCEPT !.set = note]
  /\ UNCHANGED mainVars

\* The collection may hold any documents when the server starts.
InitSan ==
  /\ InitWith(MaxReq)
  /\ san \in [docs : [SanIds -> Docs], pend : {NoGet}, last : {NoGet},
               flagged : {{}}, set : {NoSet}]
  /\ cls = ClsIdle /\ conf = ConfIdle /\ pay = PayIdle /\ pset = PsetIdle /\ wk = WkIdle

NextSan ==
  \/ \E id \in SanIds, ok \in BOOLEAN : SanGet(id, ok)
  \/ \E ok \in BOOLEAN : SanDestroy(ok)
  \/ \E id \in SanIds, ok \in BOOLEAN : SanSet(id, ValidDoc, ok)

SpecSan == InitSan /\ [][NextSan]_vars

\* The set of the sanitized store on its own, over an empty collection, with
\* callers that hand over sessions of any shape.
InitSanSet == InitWith(MaxReq) /\ san = SanIdle /\ cls = ClsIdle /\ conf = ConfIdle /\ pay = PayIdle /\ pset = PsetIdle /\ wk = WkIdle

NextSanSet ==
  \E id \in SanIds, doc \in Docs \ {NoDoc}, ok \in BOOLEAN : SanSet(id, doc, ok)

SpecSanSet == InitSanSet /\ [][NextSanSet]_vars

\* The store calls back: a destroy that was issued is answered.
SpecSanFair == SpecSan /\ WF_vars(\E ok \in BOOLEAN : SanDestroy(ok))

\* ---------------------------------------------------------- the classifier
\* isAdminRequest seen on its own, over requests of every combination of:
\* the header absent ("none"), "admin", or another value;
XctValues == {"none", "admin", "Admin", "user"}

\* an auth route, the admin routes, and paths where "admin" is the start of a
\* longer name, a whole segment in the middle, or the last segment;
Paths ==
  { <<"/", "api", "/", "auth", "/", "status">>,
    <<"/", "api", "/", "auth", "/", "admin", "/", "status">>,
    <<"/", "api", "/", "auth", "/", "admin", "istrators">>,
    <<"/", "api", "/", "shop", "/", "admin", "/", "orders">>,
    <<"/", "api", "/", "shop", "/", "admin">>,
    <<"/", "api", "/", "products">> }

\* no Origin, the admin panel, the storefront, the admin panel with a
\* trailing slash, hosts that contain the admin host, and another host;
Origins ==
  { << >>,
    <<"http://", "localhost:8081">>,
    <<"http://", "localhost:8080">>,
    <<"https://", "localhost:8081", "/">>,
    <<"http://", "evil-", "localhost:8081">>,
    <<"http://", "localhost:8081", ".", "localhost:8080">>,
    <<"http://", "other.example">> }

\* and the same as Referer, with a page path.
Referers ==
  { << >>,
    <<"http://", "localhost:8081", "/", "orders">>,
    <<"http://", "localhost:8080", "/", "cart">>,
    <<"http://", "localhost:8081">>,
    <<"http://", "evil-", "localhost:8081", "/", "x">>,
    <<"http://", "other.example", "/", "localhost:8081">> }

InitClassify ==
  /\ InitWith(MaxReq)
  /\ san = SanIdle
  /\ cls \in [xct : XctValues, path : Paths, cU : {0, 1}, cA : {0, 1},
               origin : Origins, referer : Referers, verdict : {"none"}]
  /\ conf = ConfIdle /\ pay = PayIdle /\ pset = PsetIdle /\ wk = WkIdle

\* const isAdmin = isAdminRequest(req)
Classify ==
  /\ cls.verdict = "none"
  /\ cls' = [cls EXCEPT !.verdict =
               IF IsAdminRequest(cls.xct, cls.path, CookieHeader(cls.cU, cls.cA),
                                 cls.origin, cls.referer)
                 THEN "admin" ELSE "user"]
  /\ UNCHANGED <<users, store, nextSid, known, reqs, obs, authed, san, now, mode, conf, pay, pset, wk>>

NextClassify == Classify

SpecClassify == InitClassify /\ [][NextClassify]_vars

\* The classifier of a server that was set up as SETUP.md says: the admin
\* panel and the storefront are configured to the same URL.
ClassifySetup ==
  /\ cls.verdict = "none"
  /\ cls' = [cls EXCEPT !.verdict =
               IF IsAdminRequestFor(cls.xct, cls.path, CookieHeader(cls.cU, cls.cA),
                                    cls.origin, cls.referer, SetupUrl, SetupUrl)
                 THEN "admin" ELSE "user"]
  /\ UNCHANGED <<users, store, nextSid, known, reqs, obs, authed, san, now, mode, conf, pay, pset, wk>>

InitSetup == InitClassify

NextSetup == ClassifySetup

SpecSetup == InitSetup /\ [][NextSetup]_vars

\* ------------------------------------------------------ payment submission
\* What precedes the duplicate check of createPayment: no productId (400),
\* no screenshot (400), no such product (404).
Preconditions == {"ok", "noProductId", "noScreenshot", "noProduct"}

PreStatus(pre) == IF pre = "noProduct" THEN 404 ELSE 400

SubDone(s) == pay.subs[s].pc = "done"

\* POST /api/payments: the validation and Product.findById. The handler then
\* asks for the duplicate check when a transactionId was provided, and for
\* the save otherwise.
PaySubmit(s, txn, pre) ==
  /\ pay.subs[s].pc = "idle"
  /\ pay' = [pay EXCEPT !.subs[s] =
       IF pre # "ok"
         THEN [IdleSub EXCEPT !.pc = "done", !.txn = txn, !.status = PreStatus(pre)]
         ELSE [IdleSub EXCEPT !.pc = IF Provided(txn) THEN "check" ELSE "save",
                              !.txn = txn]]
  /\ UNCHANGED <<users, store, nextSid, known, reqs, obs, authed, san, cls, now, mode, conf, pset, wk>>

\* The value findOne({ transactionId }) looks for: whether the setters of the
\* path (trim) run on the filter of a query depends on the library version.
QueryValue(txn, setters) == IF setters THEN Trim(txn) ELSE txn

\* Payment.findOne({ transactionId }) answers: 400 when a payment has it.
PayCheck(s, setters) ==
  /\ pay.subs[s].pc = "check"
  /\ LET q == QueryValue(pay.subs[s].txn, setters)
         existingPayment == \E b \in BookingIds :
                               pay.recs[b].present /\ pay.recs[b].txn = q
     IN pay' = [pay EXCEPT !.subs[s] =
                  IF existingPayment
                    THEN [@ EXCEPT !.pc = "done", !.status = 400]
                    ELSE [@ EXCEPT !.pc = "save"]]
  /\ UNCHANGED <<users, store, nextSid, known, reqs, obs, authed, san, cls, now, mode, conf, pset, wk>>

\* The unique index of bookingId alone.
PaymentKeyTakenBooking(b, stored) == pay.recs[b].present

\* The insert is refused (E11000) by the unique index of bookingId, or by the
\* sparse unique index of transactionId, which holds every document that has
\* the field, the empty string included.
PaymentKeyTaken(b, stored) ==
  \/ pay.recs[b].present
  \/ stored.def /\ \E c \in BookingIds :
                      pay.recs[c].present /\ pay.recs[c].txn = stored

\* await payment.save() settles, under the bookingId the handler generated:
\* 201 with the document inserted, 400 on error code 11000, 500 on any other
\* error.
PaySave(s, b, fails) ==
  /\ pay.subs[s].pc = "save"
  /\ LET stored == Trim(pay.subs[s].txn) IN
     pay' = IF fails
              THEN [pay EXCEPT !.subs[s] =
                      [@ EXCEPT !.pc = "done", !.status = 500, !.failed = TRUE]]
            ELSE IF PaymentKeyTaken(b, stored)
              THEN [pay EXCEPT !.subs[s] = [@ EXCEPT !.pc = "done", !.status = 400]]
            ELSE [pay EXCEPT !.recs[b] = [NoPayment EXCEPT !.present = TRUE,
                                                           !.txn = stored],
                             !.subs[s] = [@ EXCEPT !.pc = "done", !.status = 201,
                                                   !.made = b]]
  /\ UNCHANGED <<users, store, nextSid, known, reqs, obs, authed, san, cls, now, mode, conf, pset, wk>>

\* The response is out; the next submission may come.
PayReset(s) ==
  /\ SubDone(s)
  /\ pay' = [pay EXCEPT !.subs[s] = IdleSub]
  /\ UNCHANGED <<users, store, nextSid, known, reqs, obs, authed, san, cls, now, mode, conf, pset, wk>>

InitPay ==
  /\ InitWith(MaxReq)
  /\ san = SanIdle /\ cls = ClsIdle /\ conf = ConfIdle
  /\ pay = PayIdle /\ pset = PsetIdle /\ wk = WkIdle

NextPay ==
  \/ \E s \in Subs, txn \in TxnInputs, pre \in Preconditions : PaySubmit(s, txn, pre)
  \/ \E s \in Subs, setters \in BOOLEAN : PayCheck(s, setters)
  \/ \E s \in Subs, b \in BookingIds, fails \in BOOLEAN : PaySave(s, b, fails)
  \/ \E s \in Subs : PayReset(s)

SpecPay == InitPay /\ [][NextPay]_vars

\* ---------------------------------------------------- payment status update
\* The statuses a client may ask for: the three of the enum and one more.
RequestedStatuses == PaymentStatuses \cup {"paid"}

\* if (status === 'verified') only.
VerdictIfVerified(status) == status = "verified"

\* if (status === 'verified' || status === 'rejected')
Verdict(status) == status \in {"verified", "rejected"}

\* PUT /api/payments/:id/status by an admin: 400 when the status is not one
\* of the enum, else Payment.findById is asked for.
UpdStart(id, want, by) ==
  /\ pay.upd.pc = "idle"
  /\ pay' = [pay EXCEPT !.upd =
       IF want \notin PaymentStatuses
         THEN [IdleUpd EXCEPT !.pc = "done", !.id = id, !.want = want, !.by = by,
                              !.status = 400]
         ELSE [IdleUpd EXCEPT !.pc = "find", !.id = id, !.want = want, !.by = by]]
  /\ UNCHANGED <<users, store, nextSid, known, reqs, obs, authed, san, cls, now, mode, conf, pset, wk>>

\* findById answers: 404 when there is no such payment; else the handler
\* assigns to the loaded document (new Date() is taken now) and asks for the
\* save.
UpdFind ==
  /\ pay.upd.pc = "find"
  /\ pay' = [pay EXCEPT !.upd =
       IF ~pay.recs[pay.upd.id].present
         THEN [@ EXCEPT !.pc = "done", !.status = 404]
         ELSE [@ EXCEPT !.pc = "save", !.doc = pay.recs[pay.upd.id], !.at = now]]
  /\ UNCHANGED <<users, store, nextSid, known, reqs, obs, authed, san, cls, now, mode, conf, pset, wk>>

\* The document after the assignments of the handler.
Assigned(u) ==
  IF Verdict(u.want)
    THEN [u.doc EXCEPT !.status = u.want, !.verifiedAt = u.at, !.verifiedBy = u.by]
    ELSE [u.doc EXCEPT !.status = u.want]

\* payment.save() writes the paths whose value differs from the loaded one.
Saved(cur, loaded, assigned) ==
  [f \in DOMAIN cur |-> IF assigned[f] # loaded[f] THEN assigned[f] ELSE cur[f]]

\* await payment.save() settles: 200 with the modified paths written, or 500
\* with nothing written.
UpdSave(fails) ==
  /\ pay.upd.pc = "save"
  /\ LET u == pay.upd IN
     pay' = IF fails
              THEN [pay EXCEPT !.upd = [@ EXCEPT !.pc = "done", !.status = 500]]
              ELSE [pay EXCEPT
                      !.recs[u.id] = Saved(@, u.doc, Assigned(u)),
                      !.lastV[u.id] = IF u.want \in {"verified", "rejected"}
                                        THEN [at |-> u.at, by |-> u.by] ELSE @,
                      !.upd = [@ EXCEPT !.pc = "done", !.status = 200]]
  /\ UNCHANGED <<users, store, nextSid, known, reqs, obs, authed, san, cls, now, mode, conf, pset, wk>>

\* The response is out; the next update may come.
UpdReset ==
  /\ pay.upd.pc = "done"
  /\ pay' = [pay EXCEPT !.upd = IdleUpd]
  /\ UNCHANGED <<users, store, nextSid, known, reqs, obs, authed, san, cls, now, mode, conf, pset, wk>>

\* The payments as createPayment leaves them: pending, never verified.
InitStatus ==
  /\ InitWith(MaxReq)
  /\ san = SanIdle /\ cls = ClsIdle /\ conf = ConfIdle
  /\ pay \in [recs : [BookingIds -> {NoPayment, [NoPayment EXCEPT !.present = TRUE]}],
              subs : {PayIdle.subs}, upd : {IdleUpd}, lastV : {PayIdle.lastV}]
  /\ pset = PsetIdle /\ wk = WkIdle

\* The calls of updatePaymentStatus, one after the other, as time passes.
NextStatus ==
  \/ \E id \in BookingIds, want \in RequestedStatuses, by \in Principals :
        UpdStart(id, want, by)
  \/ UpdFind
  \/ \E fails \in BOOLEAN : UpdSave(fails)
  \/ UpdReset
  \/ Tick

SpecStatus == InitStatus /\ [][NextStatus]_vars

\* -------------------------------------------------------- analytics window
Days == 0..MaxDay
Hours == 0..23

\* Date.prototype.getDay: 0 for Sunday to 6 for Saturday; 1 January 1970 was
\* a Thursday.
GetDay(day) == (day + 4) % 7

\* startDate = new Date(now);
\* startDate.setDate(now.getDate() - now.getDay() + 1): the date moves by
\* 1 - getDay() days (setDate carries into the neighbouring month);
\* startDate.setHours(0, 0, 0, 0).
WeekStart(t) == At(t.day - GetDay(t.day) + 1, 0)

\* GET /api/analytics?period=week
GetAnalyticsWeek ==
  /\ wk.by = "none"
  /\ wk' = [wk EXCEPT !.start = WeekStart(wk.now), !.by = "getAnalytics"]
  /\ UNCHANGED <<users, store, nextSid, known, reqs, obs, authed, san, cls, now, mode, conf, pay, pset>>

\* GET /api/analytics/all
GetAllAnalytics ==
  /\ wk.by = "none"
  /\ wk' = [wk EXCEPT !.start = WeekStart(wk.now), !.by = "getAllAnalytics"]
  /\ UNCHANGED <<users, store, nextSid, known, reqs, obs, authed, san, cls, now, mode, conf, pay, pset>>

\* The request is made at any hour of any of the days.
InitWeek ==
  /\ InitWith(MaxReq)
  /\ san = SanIdle /\ cls = ClsIdle /\ conf = ConfIdle
  /\ pay = PayIdle /\ pset = PsetIdle
  /\ wk \in [now : {At(d, h) : d \in Days, h \in Hours}, start : {At(0, 0)},
             by : {"none"}]

NextWeek == GetAnalyticsWeek \/ GetAllAnalytics

SpecWeek == InitWeek /\ [][NextWeek]_vars

\* ------------------------------------------------------- payment settings
\* The documents with isActive: true, by position.
ActiveDocs == {i \in 1..Len(pset.docs) : pset.docs[i].isActive}

\* findOne({ isActive: true }): the first such document, 0 for null.
FindActive == IF ActiveDocs = {} THEN 0
              ELSE CHOOSE i \in ActiveDocs : \A j \in ActiveDocs : i <= j

\* GET /api/payment-settings: getSettings asks for the active document.
GetSettingsStart(c) ==
  /\ pset.calls[c].pc = "idle"
  /\ pset' = [pset EXCEPT !.calls[c] = [IdleCall EXCEPT !.pc = "find", !.kind = "get"]]
  /\ UNCHANGED <<users, store, nextSid, known, reqs, obs, authed, san, cls, now, mode, conf, pay, wk>>

\* PUT /api/payment-settings by an admin: 400 when accountNumber, accountName
\* or bankName is missing, else the active document is asked for.
UpdateSettingsStart(c, account, complete) ==
  /\ pset.calls[c].pc = "idle"
  /\ pset' = [pset EXCEPT !.calls[c] =
       IF ~complete
         THEN [IdleCall EXCEPT !.pc = "done", !.kind = "update", !.status = 400]
         ELSE [IdleCall EXCEPT !.pc = "find", !.kind = "update", !.account = account]]
  /\ UNCHANGED <<users, store, nextSid, known, reqs, obs, authed, san, cls, now, mode, conf, pay, wk>>

\* findOne answers. getSettings returns the document it got, or goes on to
\* create the default one; updatePaymentSettings goes on to save the document
\* it got, or a new one.
SettingsFind(c) ==
  /\ pset.calls[c].pc = "find"
  /\ pset' = [pset EXCEPT !.calls[c] =
       IF @.kind = "get"
         THEN IF FindActive # 0
                THEN [@ EXCEPT !.pc = "done", !.found = FindActive, !.status = 200]
                ELSE [@ EXCEPT !.pc = "create"]
         ELSE [@ EXCEPT !.pc = "save", !.found = FindActive]]
  /\ UNCHANGED <<users, store, nextSid, known, reqs, obs, authed, san, cls, now, mode, conf, pay, wk>>

\* this.create({ ..., isActive: true }) of getSettings settles.
SettingsCreate(c, fails) ==
  /\ pset.calls[c].pc = "create"
  /\ pset' = IF fails
               THEN [pset EXCEPT !.calls[c] = [@ EXCEPT !.pc = "done", !.status = 500]]
               ELSE [pset EXCEPT
                       !.docs = Append(@, [isActive |-> TRUE,
                                           accountNumber |-> DefaultAccount]),
                       !.calls[c] = [@ EXCEPT !.pc = "done", !.status = 200,
                                              !.found = Len(pset.docs) + 1]]
  /\ UNCHANGED <<users, store, nextSid, known, reqs, obs, authed, san, cls, now, mode, conf, pay, wk>>

\* settings.save() of updatePaymentSettings settles: the document that was
\* found is updated, or the new one is inserted.
SettingsSave(c, fails) ==
  /\ pset.calls[c].pc = "save"
  /\ LET call == pset.calls[c] IN
     pset' = IF fails
               THEN [pset EXCEPT !.calls[c] = [@ EXCEPT !.pc = "done", !.status = 500]]
             ELSE IF call.found # 0
               THEN [pset EXCEPT !.docs[call.found].accountNumber = call.account,
                                 !.calls[c] = [@ EXCEPT !.pc = "done", !.status = 200]]
             ELSE [pset EXCEPT
                     !.docs = Append(@, [isActive |-> TRUE,
                                         accountNumber |-> call.account]),
                     !.calls[c] = [@ EXCEPT !.pc = "done", !.status = 200,
                                            !.found = Len(pset.docs) + 1]]
  /\ UNCHANGED <<users, store, nextSid, known, reqs, obs, authed, san, cls, now, mode, conf, pay, wk>>

\* The response is out; the next call may come.
SettingsReset(c) ==
  /\ pset.calls[c].pc = "done"
  /\ pset' = [pset EXCEPT !.calls[c] = IdleCall]
  /\ UNCHANGED <<users, store, nextSid, known, reqs, obs, authed, san, cls, now, mode, conf, pay, wk>>

InitSettings ==
  /\ InitWith(MaxReq)
  /\ san = SanIdle /\ cls = ClsIdle /\ conf = ConfIdle
  /\ pay = PayIdle /\ pset = PsetIdle /\ wk = WkIdle

NextSettings ==
  \/ \E c \in Calls : GetSettingsStart(c)
  \/ \E c \in Calls, account \in AccountNumbers, complete \in BOOLEAN :
        UpdateSettingsStart(c, account, complete)
  \/ \E c \in Calls : SettingsFind(c)
  \/ \E c \in Calls, fails \in BOOLEAN : SettingsCreate(c, fails)
  \/ \E c \in Calls, fails \in BOOLEAN : SettingsSave(c, fails)
  \/ \E c \in Calls : SettingsReset(c)

SpecSettings == InitSettings /\ [][NextSettings]_vars

\* ================================================================ properties
HeadOut(r) == obs = r /\ reqs[r].pc = "endsave"
Completed(r) == obs = r /\ reqs[r].pc = "done"

\* C1 (as stated): after a 200 of POST /auth/login, the next request that
\* presents the returned cookie in the user namespace, with no logout in
\* between, is authenticated as the same principal: GET /auth/me returns that
\* principal and GET /auth/status reports authenticated = true.
C1_NextRequestAuthenticated ==
  \A r \in Slots :
     (HeadOut(r) /\ reqs[r].ns = "user" /\ reqs[r].expect \in Principals) =>
        /\ reqs[r].kind = "me" =>
              (reqs[r].status = 200 /\ reqs[r].body = reqs[r].expect)
        /\ reqs[r].kind = "status" =>
              (reqs[r].authd /\ reqs[r].body = reqs[r].expect)

\* C1 (amended): the same, except that GET /auth/status reports
\* authenticated = true only while the principal's role is not admin; once
\* the principal has been given the admin role it reports false.
C1_NextRequestAuthenticatedUnlessPromoted ==
  \A r \in Slots :
     (HeadOut(r) /\ reqs[r].ns = "user" /\ reqs[r].expect \in Principals) =>
        /\ reqs[r].kind = "me" =>
              (reqs[r].status = 200 /\ reqs[r].body = reqs[r].expect)
        /\ (reqs[r].kind = "status" /\ users[reqs[r].expect].role # "admin") =>
              (reqs[r].authd /\ reqs[r].body = reqs[r].expect)
        /\ (reqs[r].kind = "status" /\ users[reqs[r].expect].role = "admin") =>
              ~reqs[r].authd

\* C1 witness: a status check that presents the cookie of a 200 login and
\* is answered authenticated = true with that principal.
C1_Witness ==
  \E r \in Slots :
     /\ HeadOut(r) /\ reqs[r].ns = "user" /\ reqs[r].kind = "status"
     /\ reqs[r].expect \in Principals
     /\ reqs[r].authd /\ reqs[r].body = reqs[r].expect

\* C2: a login, admin login or signup answers with success (200 / 201) only
\* after the store acknowledged a write of the session record that holds
\* the principal; when the write fails there is no success response.
C2_SuccessOnlyAfterAck ==
  \A r \in Slots :
     (HeadOut(r) /\ reqs[r].kind \in LoginKinds /\ reqs[r].status \in {200, 201}) =>
        (reqs[r].cred # None /\ reqs[r].acked = reqs[r].cred)

\* C2 witness: an admin login answered 200 after its one save was
\* acknowledged.
C2_Witness ==
  \E r \in Slots :
     /\ HeadOut(r) /\ reqs[r].kind = "adminLogin" /\ reqs[r].status = 200
     /\ reqs[r].acked = reqs[r].cred /\ reqs[r].cred # None

\* C3 (as stated): when POST /auth/login refuses an admin with 403, then once
\* the request is over the session record of that request in the user
\* partition is not authenticated as that principal.
C3_RefusedAdminLeavesNoSession ==
  \A r \in Slots :
     (Completed(r) /\ reqs[r].kind = "login" /\ reqs[r].status = 403
        /\ reqs[r].ns = "user") =>
        ~(store["user"][reqs[r].setCookie].present
          /\ store["user"][reqs[r].setCookie].user = reqs[r].cred)

\* C4: the admin-only guard lets a request through only if the principal of
\* its session exists and has the admin role when the request is served; an
\* anonymous request gets 401 and an authenticated non-admin, also one whose
\* admin role was taken away after the login, gets 403.
C4_AdminGuard ==
  \A r \in Slots :
     (HeadOut(r) /\ reqs[r].kind = "adminOnly") =>
        /\ reqs[r].status = 200 =>
              (reqs[r].suser # None /\ users[reqs[r].suser].exists
                 /\ users[reqs[r].suser].role = "admin")
        /\ reqs[r].suser = None => reqs[r].status = 401
        /\ (reqs[r].suser # None /\ users[reqs[r].suser].role # "admin") =>
              reqs[r].status = 403

\* C4 witness: a request with the session of a 200 admin login is refused
\* with 403 by the guard because the principal is no longer an admin.
C4_Witness ==
  \E r \in Slots :
     /\ HeadOut(r) /\ reqs[r].kind = "adminOnly" /\ reqs[r].ns = "admin"
     /\ reqs[r].expect \in Principals /\ reqs[r].suser = reqs[r].expect
     /\ reqs[r].status = 403

\* C5 (as stated): every authenticated session of the admin partition names
\* a principal whose role is admin, a login of a non-admin that is
\* classified into the admin namespace is answered 403, and a signup
\* authenticates a session of the user namespace only.
C5_AdminPartitionHoldsAdmins ==
  /\ \A s \in Sids :
        (store["admin"][s].present /\ store["admin"][s].user # None) =>
           users[store["admin"][s].user].role = "admin"
  /\ \A r \in Slots :
        (HeadOut(r) /\ reqs[r].ns = "admin" /\ reqs[r].kind \in {"login", "adminLogin"}
           /\ reqs[r].cred # None /\ reqs[r].rrole # "admin") =>
           reqs[r].status \in {403, 500}
  /\ \A r \in Slots :
        (HeadOut(r) /\ reqs[r].kind = "signup" /\ reqs[r].status = 201) =>
           reqs[r].ns = "user"

\* C6 (as stated): when POST /auth/admin/login refuses a non-admin with 403,
\* then once the request is over the session record of that request in the
\* admin partition is not authenticated.
C6_RefusedUserLeavesNoAdminSession ==
  \A r \in Slots :
     (Completed(r) /\ reqs[r].kind = "adminLogin" /\ reqs[r].status = 403) =>
        ~(store[reqs[r].ns][reqs[r].setCookie].present
          /\ store[reqs[r].ns][reqs[r].setCookie].user # None)

\* C7 (as stated): when POST /auth/logout has answered 200 the partition
\* holds no record under the session id the request presented, and a status
\* check that presents that id afterwards reports authenticated = false.
C7_LogoutRemovesSession ==
  /\ \A r \in Slots :
        (Completed(r) /\ reqs[r].kind = "logout" /\ reqs[r].status = 200) =>
           ~store[reqs[r].ns][reqs[r].cookieId].present
  /\ \A r \in Slots :
        (HeadOut(r) /\ reqs[r].kind \in {"status", "adminStatus"}
           /\ reqs[r].expect = LoggedOut) => ~reqs[r].authd

\* C8 (as stated): a 200 logout leaves the other namespace alone: the other
\* partition is as the request found it and the response does not clear
\* the other namespace's cookie.
C8_LogoutLeavesOtherNamespace ==
  \A r \in Slots :
     (Completed(r) /\ reqs[r].kind = "logout" /\ reqs[r].status = 200) =>
        /\ store[Other(reqs[r].ns)] = reqs[r].snap
        /\ CookieOf(Other(reqs[r].ns)) \notin reqs[r].cleared

\* The records C9 speaks of: the cookie descriptor is missing, is not an
\* object, or has no expiry.
Damaged(doc) ==
  \/ doc.cookie \in {"undefined", "null"}
  \/ TypeOf(doc.cookie) # "object"
  \/ doc.expires \in {"undefined", "null"}

\* The records C10 speaks of: the expiry is there but is no date / time.
NonTemporal(doc) ==
  /\ doc.cookie = "object"
  /\ doc.expires \notin {"undefined", "null", ADate}

\* C9: a get that loads a record whose cookie descriptor is missing, is not
\* an object or has no expiry issues a destroy for the id and hands no
\* session to the caller; a later get of that id (with no write to it in
\* between, and when the store answers) hands no session either.
C9_DamagedRecordDropped ==
  /\ (san.last.outcome # "none" /\ san.last.doc.present /\ Damaged(san.last.doc)) =>
        (san.last.destroyed /\ san.last.outcome = "null")
  /\ (san.last.again /\ san.last.outcome # "err") => san.last.outcome = "null"

\* C9 witness: a second get of an id whose record had no expiry, after the
\* first get issued the destroy, is answered with no session.
C9_Witness ==
  /\ san.last.again /\ san.last.outcome = "null"
  /\ san.last.id \in san.flagged
  /\ ~san.docs[san.last.id].present

\* C10 (as stated): a get that loads a record whose expiry is present but is
\* not a date / time value treats it as corrupted: the destroy is issued and
\* the record is not returned.
C10_NonTemporalExpiryDropped ==
  (san.last.outcome # "none" /\ san.last.doc.present /\ NonTemporal(san.last.doc)) =>
     (san.last.destroyed /\ san.last.outcome = "null")

\* C11: a get hands its caller an error of the underlying get, no session, or
\* a session, and nothing else; when it found the record corrupted and issued
\* the destroy, the caller is told "no session" without an error, whether the
\* destroy succeeded or failed.
C11_CorruptedIsNotFound ==
  /\ san.last.outcome \in {"none", "err", "null", "session"}
  /\ san.last.destroyed =>
        (san.last.dok \in {"ok", "failed"} /\ san.last.outcome = "null")
  /\ san.last.outcome = "err" => ~san.last.destroyed

\* C11 witness: the destroy of a corrupted record failed, the record is still
\* in the collection, and the caller was told "no session".
C11_Witness ==
  /\ san.last.destroyed /\ san.last.dok = "failed"
  /\ san.last.outcome = "null"
  /\ san.docs[san.last.id] = san.last.doc

\* C12 (as stated): a request that presents a cookie whose stored record is
\* structurally corrupt (the cookie descriptor is missing or is no object, or
\* the expiry is missing or is no date) is served with a new anonymous
\* session under a new id and is not answered with a server error.
C12_CorruptRecordReplaced ==
  \A r \in Slots :
     (HeadOut(r) /\ reqs[r].seen.present
        /\ (Damaged(reqs[r].seen) \/ NonTemporal(reqs[r].seen))) =>
        /\ reqs[r].status # 500
        /\ reqs[r].setCookie \notin {0, reqs[r].cookieId}
        /\ reqs[r].suser = None
        /\ ~reqs[r].authd

CookiesOfOwnNamespace ==
  \A r \in Slots :
     (HeadOut(r) /\ reqs[r].manual # << >>) =>
        reqs[r].manual[1] = CookieOf(reqs[r].ns)

\* A step changes a partition only on behalf of a request of that namespace.
WritesOwnPartition ==
  \A ns \in Namespaces :
     store'[ns] # store[ns] =>
        \E r \in Slots : reqs[r].pc # "idle" /\ reqs[r].ns = ns

\* C14 (as stated): every request is handled by the lifecycle of its
\* namespace alone: it writes only that namespace's partition, and the id of
\* its session is put only in that namespace's cookie, never in the other's.
C14_OneLifecyclePerRequest ==
  []CookiesOfOwnNamespace /\ [][WritesOwnPartition]_vars

\* C15: a request whose x-client-type header equals "admin" is classified
\* into the admin namespace, whatever its path, cookies, Origin and Referer.
C15_AdminHeaderWins ==
  (cls.verdict # "none" /\ cls.xct = "admin") => cls.verdict = "admin"

\* C15 witness: a request with the admin header is classified admin although
\* its path is no admin path, it carries only the user cookie and its Origin
\* and Referer are the storefront's.
C15_Witness ==
  /\ cls.verdict = "admin" /\ cls.xct = "admin"
  /\ cls.path = <<"/", "api", "/", "products">>
  /\ cls.cU = 1 /\ cls.cA = 0
  /\ cls.origin = <<"http://", "localhost:8080">>
  /\ cls.referer = <<"http://", "localhost:8080", "/", "cart">>

\* The host of an Origin or Referer value is the host of the admin panel.
HostIsAdminHost(url) == RefererDomain(url) = DomainOf(AdminUrl)

\* C16 (as stated): a request with no admin x-client-type header, whose path
\* neither starts with /api/auth/admin nor contains /admin/, and whose Origin
\* and Referer hosts are not the admin panel's host, is classified into the
\* user namespace.
C16_NoAdminSignalIsUser ==
  (/\ cls.verdict # "none"
   /\ cls.xct # "admin"
   /\ ~StartsWith(cls.path, <<"/", "api", "/", "auth", "/", "admin">>)
   /\ ~Includes(cls.path, <<"/", "admin", "/">>)
   /\ ~HostIsAdminHost(cls.origin)
   /\ ~HostIsAdminHost(cls.referer)) => cls.verdict = "user"

\* C17 (as stated): a request with no admin header and no admin path whose
\* Cookie header holds the admin cookie and not the user cookie is classified
\* into the admin namespace.
C17_AdminCookieAloneIsAdmin ==
  (/\ cls.verdict # "none"
   /\ cls.xct # "admin"
   /\ ~PathIsAdmin(cls.path)
   /\ cls.cA = 1 /\ cls.cU = 0) => cls.verdict = "admin"

\* C18: GET /auth/status answers authenticated = false and user = null for a
\* session whose principal has the admin role, and GET /auth/admin/status
\* answers authenticated = true exactly when the session resolves to an
\* existing principal whose role is admin.
C18_StatusByRole ==
  \A r \in Slots :
     /\ (HeadOut(r) /\ reqs[r].kind = "status" /\ reqs[r].suser # None
           /\ users[reqs[r].suser].role = "admin") =>
           (~reqs[r].authd /\ reqs[r].body = None)
     /\ (HeadOut(r) /\ reqs[r].kind = "adminStatus") =>
           (reqs[r].authd <=>
              (reqs[r].suser # None /\ users[reqs[r].suser].exists
                 /\ users[reqs[r].suser].role = "admin"))

\* C18 witness: a status check with the session of a principal who logged in
\* as a user and was made an admin afterwards is answered authenticated =
\* false.
C18_Witness ==
  \E r \in Slots :
     /\ HeadOut(r) /\ reqs[r].kind = "status" /\ reqs[r].ns = "user"
     /\ reqs[r].expect \in Principals /\ reqs[r].suser = reqs[r].expect
     /\ users[reqs[r].suser].role = "admin"
     /\ ~reqs[r].authd /\ reqs[r].body = None

\* C19: a login answered 401 leaves the session it was sent with as it was:
\* the session the response saves has the id and the principal of the record
\* found under the cookie (the principal of the 200 login that issued it),
\* an anonymous or new session stays anonymous, and the save at the end of
\* the response writes that same principal back under that id.
C19_FailedLoginKeepsSession ==
  \A r \in Slots :
     /\ (HeadOut(r) /\ reqs[r].kind \in {"login", "adminLogin"}
           /\ reqs[r].status = 401 /\ reqs[r].seen.present) =>
           /\ reqs[r].sid = reqs[r].cookieId
           /\ reqs[r].suser = store[reqs[r].ns][reqs[r].cookieId].user
           /\ reqs[r].expect \in Principals => reqs[r].suser = reqs[r].expect
     /\ (HeadOut(r) /\ reqs[r].kind \in {"login", "adminLogin"}
           /\ reqs[r].status = 401 /\ ~reqs[r].seen.present) =>
           reqs[r].suser = None
     /\ (Completed(r) /\ reqs[r].kind \in {"login", "adminLogin"}
           /\ reqs[r].status = 401 /\ reqs[r].endOk) =>
           store[reqs[r].ns][reqs[r].sid] = Rec(reqs[r].suser, reqs[r].texp)

\* C19 witness: a login with a wrong password, sent with the cookie of a 200
\* login, is answered 401 and its session is still that principal's.
C19_Witness ==
  \E r \in Slots :
     /\ HeadOut(r) /\ reqs[r].kind = "login" /\ reqs[r].status = 401
     /\ reqs[r].expect \in Principals /\ reqs[r].suser = reqs[r].expect
     /\ reqs[r].tried = reqs[r].expect /\ ~reqs[r].pwOk
     /\ reqs[r].setCookie = reqs[r].cookieId

\* The login that was tried failed on its credentials.
CredentialFailure(rq) ==
  \/ ~users[rq.tried].exists
  \/ ~users[rq.tried].active
  \/ ~rq.pwOk

\* C20: a login with an unknown e-mail, a deactivated account or a wrong
\* password is answered 401, and the answer to an unknown e-mail has the
\* status and the body of the answer to a wrong password for an active
\* account.
C20_CredentialFailuresAlike ==
  \A r \in Slots :
     (HeadOut(r) /\ reqs[r].kind \in {"login", "adminLogin"}
        /\ reqs[r].tried # None /\ CredentialFailure(reqs[r])) =>
        /\ reqs[r].status = 401
        /\ (~users[reqs[r].tried].exists \/ users[reqs[r].tried].active) =>
              reqs[r].body = InvalidCredentials

\* C20 witness: a login for an e-mail that has no account is answered 401
\* with the message of a wrong password while another account is deactivated.
C20_Witness ==
  \E r \in Slots :
     /\ HeadOut(r) /\ reqs[r].kind = "login" /\ reqs[r].status = 401
     /\ reqs[r].tried # None /\ ~users[reqs[r].tried].exists
     /\ reqs[r].body = InvalidCredentials
     /\ \E q \in Principals : users[q].exists /\ ~users[q].active

\* The principal of the session a request was sent with, as the partition
\* holds it when the response head is written.
Presented(rq) ==
  IF rq.cookieId # 0 /\ store[rq.ns][rq.cookieId].present
    THEN store[rq.ns][rq.cookieId].user ELSE None

\* A step that answers a signup with the given status.
SignupAnswered(r, st) ==
  /\ reqs[r].pc = "idle" /\ reqs'[r].kind = "signup" /\ reqs'[r].status = st

RefusedSignupWritesNothing ==
  \A r \in Slots :
     SignupAnswered(r, 403) => (users' = users /\ store' = store)

RefusedSignupAnswer ==
  \A r \in Slots :
     (HeadOut(r) /\ reqs[r].kind = "signup" /\ reqs[r].valid) =>
        /\ reqs[r].roleBody = "admin" =>
              /\ reqs[r].status = 403
              /\ reqs[r].cred = None
              /\ reqs[r].suser = Presented(reqs[r])
        /\ reqs[r].status = 201 =>
              /\ reqs[r].roleBody # "admin"
              /\ users[reqs[r].cred].exists
              /\ users[reqs[r].cred].role = "user"

\* C21: a signup whose body passes the validators and whose session loads is
\* answered 403 when the body has role = "admin": the step that answers it
\* writes neither the users collection nor the session store, no principal
\* is logged in and the session stays the one that was presented; with any
\* other role, or none, the account a 201 reports has the role user.
C21_AdminSignupRefused ==
  []RefusedSignupAnswer /\ [][RefusedSignupWritesNothing]_vars

\* C21 witness: a signup with role "admin" for an e-mail that has no account
\* is answered 403 and the account still does not exist.
C21_Witness ==
  \E r \in Slots :
     /\ HeadOut(r) /\ reqs[r].kind = "signup" /\ reqs[r].roleBody = "admin"
     /\ reqs[r].status = 403 /\ reqs[r].valid
     /\ ~users[ToLowerCase(reqs[r].email)].exists

ConflictWritesNothing ==
  \A r \in Slots :
     SignupAnswered(r, 400) => (users' = users /\ store' = store)

ConflictAnswer ==
  \A r \in Slots :
     (HeadOut(r) /\ reqs[r].kind = "signup" /\ reqs[r].valid
        /\ reqs[r].roleBody # "admin" /\ reqs[r].existed) =>
        /\ reqs[r].status = 400
        /\ reqs[r].body = AlreadyExists
        /\ reqs[r].cred = None
        /\ reqs[r].suser = Presented(reqs[r])

\* C22: a signup (valid body, no role "admin", session loaded) for an e-mail
\* that, in lower case, is the e-mail of an existing account is answered 400
\* "already exists": the step that answers it writes neither the users
\* collection nor the session store, and the session of the request keeps the
\* principal it was presented with (or stays anonymous).
C22_DuplicateEmailRefused ==
  []ConflictAnswer /\ [][ConflictWritesNothing]_vars

\* C22 witness: a signup that spells the e-mail of an existing account with
\* a capital letter, sent with that account's session, is answered 400 and
\* the session is still that account's.
C22_Witness ==
  \E r \in Slots :
     /\ HeadOut(r) /\ reqs[r].kind = "signup" /\ reqs[r].status = 400
     /\ reqs[r].email = "U" /\ reqs[r].existed /\ reqs[r].valid
     /\ reqs[r].body = AlreadyExists
     /\ reqs[r].suser = "u" /\ reqs[r].setCookie = reqs[r].cookieId

\* C23 (as stated): however signups for one e-mail (in lower case) overlap,
\* no two of them create the account, only a request that created it is
\* answered 201, and every signup that finds the account made by another
\* request, when it looks the e-mail up or when it saves, is answered with
\* the 400 of a duplicate e-mail.
C23_ConcurrentSignupsConflict ==
  /\ \A r \in Slots, q \in Slots :
        (r # q /\ reqs[r].made /\ reqs[q].made) => reqs[r].cred # reqs[q].cred
  /\ \A r \in Slots :
        (HeadOut(r) /\ reqs[r].kind = "signup" /\ reqs[r].status = 201) =>
           reqs[r].made
  /\ \A r \in Slots :
        (HeadOut(r) /\ reqs[r].kind = "signup" /\ reqs[r].valid
           /\ reqs[r].roleBody # "admin" /\ ~reqs[r].made
           /\ users[ToLowerCase(reqs[r].email)].exists) =>
           (reqs[r].status = 400 /\ reqs[r].body = AlreadyExists)

\* C24 (as stated): GET /auth/me with a session whose stored identity names
\* a principal that is not in the users collection is answered 404, and with
\* a session that holds no identity it is answered 401.
C24_MeOfMissingPrincipal ==
  \A r \in Slots :
     /\ (HeadOut(r) /\ reqs[r].kind = "me" /\ reqs[r].stored # None
           /\ ~users[reqs[r].stored].exists) => reqs[r].status = 404
     /\ (HeadOut(r) /\ reqs[r].kind = "me" /\ reqs[r].stored = None) =>
           reqs[r].status = 401

\* The ids under which a partition holds a record.
Held(part) == {s \in Sids : part[s].present}

\* The save at the end of a request that was sent with a valid cookie adds
\* no record: the partition holds records under the ids it held before.
TouchAddsNoRecord ==
  \A r \in Slots :
     (reqs[r].pc = "endsave" /\ reqs'[r].pc = "done" /\ reqs'[r].endOk
        /\ reqs[r].sid \in Held(store[reqs[r].ns])) =>
        Held(store'[reqs[r].ns]) = Held(store[reqs[r].ns])

ExpiryRolled ==
  \A r \in Slots :
     (Completed(r) /\ reqs[r].endOk) =>
        /\ store[reqs[r].ns][reqs[r].sid].present
        /\ store[reqs[r].ns][reqs[r].sid].until = reqs[r].texp

ExpiryFromRequestTime ==
  \A r \in Slots :
     (HeadOut(r) /\ reqs[r].seen.present) =>
        /\ reqs[r].sid = reqs[r].cookieId
        /\ reqs[r].texp = reqs[r].at + MaxAge
        /\ reqs[r].at = now

\* C25: a request that presents a valid session cookie (a record is under
\* its id and has not expired) sets its session's expiry to the time of the
\* request plus maxAge, the save at the end of the response writes that
\* expiry to the record under the id of the cookie, and that save leaves the
\* partition with the records it had: one under that id, however many
\* requests were sent with it.
C25_RollingExpiry ==
  []ExpiryFromRequestTime /\ []ExpiryRolled /\ [][TouchAddsNoRecord]_vars

\* C25 witness: a request sent with a cookie one tick before its record
\* expires has moved its session's expiry to maxAge past the request's time,
\* and the record is the only one of its partition.
C25_Witness ==
  \E r \in Slots :
     /\ HeadOut(r) /\ reqs[r].seen.present
     /\ store[reqs[r].ns][reqs[r].cookieId].until = now + 1
     /\ reqs[r].at >= 1 /\ reqs[r].texp = reqs[r].at + MaxAge
     /\ reqs[r].setCookie = reqs[r].cookieId
     /\ Held(store[reqs[r].ns]) = {reqs[r].cookieId}

\* C26 (as stated): every response of a request that resolved or created a
\* session carries the id of that session in the cookie of the request's
\* namespace, also when the handler changed nothing in the session, and the
\* save at the end of the response, when the store acknowledges it, leaves
\* the session in the store (a login refused with 403 ends its session).
C26_EveryResponseSetsCookie ==
  \A r \in Slots :
     /\ HeadOut(r) =>
           (reqs[r].sid # 0 /\ reqs[r].setCookie = reqs[r].sid)
     /\ (Completed(r) /\ reqs[r].endOk
           /\ ~(reqs[r].kind \in LoginKinds /\ reqs[r].status = 403)) =>
           store[reqs[r].ns][reqs[r].sid] = Rec(reqs[r].suser, reqs[r].texp)

\* The attributes C29 asks of a session cookie.
WellFormed(a) ==
  /\ a.httpOnly
  /\ a.path = "/"
  /\ a.domain = "undefined"
  /\ a.secure <=> a.sameSite = "none"
  /\ ~a.secure => a.sameSite = "lax"

\* C29: every session cookie a response sets, by express-session under the
\* cookie name of either namespace or by the res.end hook of the login
\* controller, is httpOnly, has path "/" and no domain, and is secure
\* exactly when its sameSite is "none"; otherwise its sameSite is "lax".
C29_CookieAttributes ==
  \A r \in Slots :
     /\ (HeadOut(r) /\ reqs[r].setCookie # 0) => WellFormed(reqs[r].attrs)
     /\ (HeadOut(r) /\ reqs[r].manual # << >>) => WellFormed(reqs[r].mattrs)

\* C29 witness: in production a 200 login sets its cookie in the res.end
\* hook, secure and with sameSite "none".
C29_Witness ==
  \E r \in Slots :
     /\ HeadOut(r) /\ IsProduction /\ reqs[r].kind = "login"
     /\ reqs[r].manual # << >> /\ reqs[r].mattrs.secure
     /\ reqs[r].mattrs.sameSite = "none" /\ reqs[r].mattrs.httpOnly

LoadFailureFailsClosed ==
  \A r \in Slots :
     /\ (obs = r /\ reqs[r].kind \in GuardedKinds /\ reqs[r].loadErr) =>
           /\ reqs[r].status = 500 /\ reqs[r].pc = "done"
           /\ ~reqs[r].ran /\ ~reqs[r].hasSess /\ reqs[r].setCookie = 0
     /\ (reqs[r].kind \in GuardedKinds /\ reqs[r].ran) => ~reqs[r].loadErr
     /\ (HeadOut(r) /\ reqs[r].kind \in GuardedKinds /\ reqs[r].ran
           /\ reqs[r].status = 200) =>
           (reqs[r].suser # None /\ reqs[r].stored = reqs[r].suser)

EndSaveKeepsAnswer ==
  \A r \in Slots :
     (reqs[r].pc = "endsave" /\ reqs[r].kind \in GuardedKinds) =>
        (reqs'[r].status = reqs[r].status /\ reqs'[r].ran = reqs[r].ran)

C28_PublicRouteSurvivesLoadFailure ==
  \A r \in Slots :
     (obs = r /\ reqs[r].kind \in PublicKinds /\ reqs[r].loadErr) =>
        reqs[r].status = 200

\* C30: for every configured maxAge (milliseconds), the ttl (seconds) of the
\* store of both partitions is at least twice maxAge.
C30_TtlAtLeastTwiceMaxAge ==
  (conf.done /\ ~conf.maxAge.nan) =>
    \A ns \in Namespaces :
       /\ ~conf.ttl[ns].nan
       /\ conf.ttl[ns].v * 1000 >= 2 * conf.maxAge.v

\* C32: the sanitizer's set hands every session, structurally valid or not,
\* to the underlying set unchanged and tells its callback what the underlying
\* set answered; a set that succeeded leaves the session as given under the id.
C32_SetIsPassThrough ==
  /\ [](san.set.passed = san.set.given /\ san.set.answer = san.set.result)
  /\ [][\A id \in SanIds :
          (san'.set # san.set /\ san'.set.id = id) =>
             IF san'.set.result = "ok"
               THEN san'.docs = [san.docs EXCEPT ![id] = san'.set.given]
               ELSE san'.docs = san.docs]_vars

\* C32 witness: a session without a cookie object was handed to set, written
\* as it was and acknowledged.
C32_Witness ==
  /\ san.set.id # 0
  /\ Corrupted(san.set.given)
  /\ san.set.answer = "ok"
  /\ san.docs[san.set.id] = san.set.given

CallbackOnce ==
  /\ san.pend.calls = 0
  /\ san.last.id # 0 => (san.last.calls = 1 /\ san.last.outcome # "none")

\* C35: every get of the sanitizer answers its caller exactly once: at once
\* on a store error, a missing record and a valid record, and from the
\* callback of the destroy for a corrupt record, whether the destroy
\* succeeded or failed; a get that waits for its destroy is answered.
C35_GetCallsBackOnce ==
  /\ []CallbackOnce
  /\ \A id \in SanIds : (san.pend.id = id) ~> (san.pend.id = 0 /\ san.last.id = id)

\* C35 witness: a get of a corrupt record was answered once although its
\* destroy failed.
C35_Witness ==
  /\ san.last.destroyed /\ san.last.dok = "failed"
  /\ san.last.calls = 1
  /\ san.pend.id = 0

\* C33: a request that carries the cookie of a session, loaded it while it
\* was authenticated and is still in flight when logout has destroyed the
\* record and answered 200, does not re-create the record with its save at
\* the end of the response: the store holds no authenticated record under
\* that session id afterwards.
C33_LogoutBeatsStaleSave ==
  [][\A r \in Slots :
       (/\ reqs[r].pc = "endsave"
        /\ reqs[r].kind \notin LoginKinds
        /\ reqs[r].suser # None
        /\ authed[reqs[r].ns][reqs[r].sid] = LoggedOut
        /\ reqs'[r].pc = "done") =>
          ~(/\ store'[reqs[r].ns][reqs[r].sid].present
            /\ store'[reqs[r].ns][reqs[r].sid].user # None)]_vars

\* No request is in flight.
Quiet == obs = 0 /\ \A r \in Slots : Free(r)

\* C34: a 200 login survives concurrent traffic on the session it was sent
\* with: once every request has completed, the record under the id the login
\* returned still holds the principal that logged in (until that session is
\* logged out or logged in again), whatever requests that carried the old
\* cookie saved after the login's write.
C34_LoginSurvivesStaleSave ==
  \A ns \in Namespaces, s \in Sids :
     (Quiet /\ authed[ns][s] \in Principals) =>
        (store[ns][s].present /\ store[ns][s].user = authed[ns][s])

\* C34 witness: a login sent with the cookie of an anonymous session is
\* answered 200 under a new id while another request, which loaded that
\* anonymous session, has its save still to come.
C34_Witness ==
  \E r \in Slots, q \in Slots :
     /\ q # r /\ HeadOut(r) /\ reqs[r].kind = "login" /\ reqs[r].status = 200
     /\ reqs[r].cookieId # 0 /\ reqs[r].setCookie # reqs[r].cookieId
     /\ reqs[q].pc = "endsave" /\ reqs[q].sid = reqs[r].cookieId
     /\ reqs[q].suser = None /\ reqs[q].ns = reqs[r].ns
     /\ store[reqs[r].ns][reqs[r].setCookie].user = reqs[r].cred

\* The request found an unexpired record that names an account that exists.
LoadedPrincipal(rq) == rq.stored # None /\ users[rq.stored].exists

\* A request that presents a session whose record names an existing account
\* passes isAuthenticated and is reported authenticated by the status check
\* of its role: the account's active flag plays no part.
SessionOutlivesDeactivation ==
  \A r \in Slots :
     /\ (HeadOut(r) /\ reqs[r].kind \in {"me", "adminOnly"} /\ LoadedPrincipal(reqs[r])) =>
           reqs[r].status # 401
     /\ (HeadOut(r) /\ reqs[r].kind = "me" /\ LoadedPrincipal(reqs[r])) =>
           (reqs[r].ran /\ reqs[r].status = 200 /\ reqs[r].body = reqs[r].stored)
     /\ (HeadOut(r) /\ reqs[r].kind = "status" /\ LoadedPrincipal(reqs[r])
           /\ users[reqs[r].stored].role # "admin") =>
           (reqs[r].authd /\ reqs[r].body = reqs[r].stored)
     /\ (HeadOut(r) /\ reqs[r].kind = "adminStatus" /\ LoadedPrincipal(reqs[r])
           /\ users[reqs[r].stored].role = "admin") =>
           (reqs[r].authd /\ reqs[r].body = reqs[r].stored)

\* A login that arrives for an account that is deactivated is answered 401.
DeactivatedLoginRefused ==
  \A r \in Slots :
     (/\ Free(r) /\ reqs'[r].kind \in {"login", "adminLogin"}
      /\ reqs'[r].tried # None
      /\ users[reqs'[r].tried].exists /\ ~users[reqs'[r].tried].active) =>
        (reqs'[r].status = 401 /\ reqs'[r].body = Deactivated /\ reqs'[r].cred = None)

\* C36: the active flag of an account is looked at by the login only.  A
\* request that presents a session whose record names an existing account
\* passes isAuthenticated and is reported authenticated by the status check
\* of its role, whether or not the account is still active; a login for a
\* deactivated account is answered 401.
C36_ActiveCheckedAtLoginOnly ==
  []SessionOutlivesDeactivation /\ [][DeactivatedLoginRefused]_vars

\* C36 witness: a status check with the session of a 200 login is reported
\* authenticated as a principal whose account has been deactivated since.
C36_Witness ==
  \E r \in Slots :
     /\ HeadOut(r) /\ reqs[r].kind = "status"
     /\ reqs[r].expect \in Principals /\ reqs[r].stored = reqs[r].expect
     /\ ~users[reqs[r].stored].active
     /\ reqs[r].authd /\ reqs[r].body = reqs[r].stored

C31_OneRecordPerTransactionId ==
  /\ [](\A b, c \in BookingIds :
          (/\ b # c
           /\ pay.recs[b].present /\ pay.recs[c].present
           /\ Provided(pay.recs[b].txn))
          => pay.recs[b].txn # pay.recs[c].txn)
  /\ [][\A s \in Subs :
          (/\ pay.subs[s].pc \in {"check", "save"}
           /\ pay.subs'[s].pc = "done"
           /\ Provided(Trim(pay.subs[s].txn))
           /\ \E b \in BookingIds :
                 pay.recs[b].present /\ pay.recs[b].txn = Trim(pay.subs[s].txn))
          => /\ pay.recs' = pay.recs
             /\ \/ pay.subs'[s].status = 400
                \/ pay.subs'[s].status = 500 /\ pay.subs'[s].failed]_vars
  /\ [][pay.recs' # pay.recs =>
          \E s \in Subs :
             /\ ~SubDone(s) /\ pay.subs'[s].pc = "done"
             /\ pay.subs'[s].status = 201
             /\ ~pay.recs[pay.subs'[s].made].present
             /\ pay.recs' = [pay.recs EXCEPT ![pay.subs'[s].made] =
                               [NoPayment EXCEPT !.present = TRUE,
                                                 !.txn = Trim(pay.subs[s].txn)]]]_vars

\* C31 witness: two submissions of one transaction id, written differently,
\* are both answered: one made the payment, the other got 400.
C31_Witness ==
  \E s, t \in Subs :
     /\ SubDone(s) /\ pay.subs[s].status = 201
     /\ SubDone(t) /\ pay.subs[t].status = 400
     /\ pay.subs[s].txn # pay.subs[t].txn
     /\ Provided(Trim(pay.subs[s].txn))
     /\ Trim(pay.subs[s].txn) = Trim(pay.subs[t].txn)
     /\ pay.recs[pay.subs[s].made].txn = Trim(pay.subs[s].txn)
     /\ Cardinality({b \in BookingIds : pay.recs[b].present}) = 1


\* C38: when updatePaymentStatus is called again and again, the status of a
\* payment is always pending, verified or rejected; while it is verified or
\* rejected, verifiedAt and verifiedBy are the time and the admin of the last
\* verifying or rejecting update that succeeded; a request for any other
\* status is answered 400 and changes nothing; and an update back to pending
\* leaves verifiedAt and verifiedBy as they were.
C38_StatusAndVerdictConsistent ==
  /\ [](\A b \in BookingIds :
          pay.recs[b].present =>
             /\ pay.recs[b].status \in PaymentStatuses
             /\ pay.recs[b].status \in {"verified", "rejected"} =>
                   /\ pay.lastV[b].by \in Principals
                   /\ pay.recs[b].verifiedAt = pay.lastV[b].at
                   /\ pay.recs[b].verifiedBy = pay.lastV[b].by)
  /\ [][(pay.upd.pc # "done" /\ pay.upd'.pc = "done") =>
          /\ pay.upd'.want \notin PaymentStatuses =>
                (pay.upd'.status = 400 /\ pay.recs' = pay.recs)
          /\ pay.upd'.status # 200 => pay.recs' = pay.recs
          /\ (pay.upd'.status = 200 /\ pay.upd'.want = "pending") =>
                pay.recs' = [pay.recs EXCEPT ![pay.upd.id].status = "pending"]
          /\ (pay.upd'.status = 200 /\ pay.upd'.want # "pending") =>
                pay.recs' = [pay.recs EXCEPT ![pay.upd.id].status = pay.upd.want,
                                             ![pay.upd.id].verifiedAt = pay.upd.at,
                                             ![pay.upd.id].verifiedBy = pay.upd.by]]_vars

\* C38 witness: a payment that one admin verified was later rejected by the
\* other, and an update has just set another, once verified, back to pending.
C38_Witness ==
  /\ pay.upd.pc = "done" /\ pay.upd.status = 200 /\ pay.upd.want = "pending"
  /\ pay.recs[pay.upd.id].status = "pending"
  /\ pay.recs[pay.upd.id].verifiedBy \in Principals
  /\ \E b \in BookingIds :
        /\ pay.recs[b].present /\ pay.recs[b].status = "rejected"
        /\ pay.recs[b].verifiedAt > 0

\* C39 (as stated): the start of the week window is 00:00 of the Monday of
\* the week of the request (the Monday at most six days before it) and is
\* not later than the time of the request, on every day of the week.
C39_WeekStartsOnMondayNotLater ==
  wk.by # "none" =>
     /\ wk.start.hour = 0
     /\ GetDay(wk.start.day) = 1
     /\ wk.start.day <= wk.now.day
     /\ wk.now.day - wk.start.day <= 6

\* C40 (as stated): under every interleaving of getSettings and
\* updatePaymentSettings calls, first calls on the empty collection included,
\* at most one payment settings document is active.
C40_AtMostOneActiveSettings == Cardinality(ActiveDocs) <= 1

=============================================================================
